---- MODULE Spec2Model ----
(***************************************************************************)
(* State-machine model of the expense tracker's views (Home, Analytics,    *)
(* Trends) over the hosted store (tables expenses, incomes, budgets).      *)
(*                                                                         *)
(* Numbers.  Amounts are the store's NUMERIC values, modelled as exact     *)
(* integers in an arbitrary money unit; quotients the code computes with   *)
(* `/` are kept as exact fractions [num, den]; toFixed(1) is modelled as   *)
(* rounding to an integer number of tenths.  IEEE-754 rounding of the      *)
(* JavaScript doubles is not modelled.                                     *)
(*                                                                         *)
(* Dates.  An instant is [month, pos]: month is a calendar month counted   *)
(* as an integer, pos is the place of the instant inside that month.       *)
(***************************************************************************)
EXTENDS Integers, Sequences, FiniteSets, TLC

VARIABLES
    page,                 \* the view the router has mounted
    \* ---- the store ----
    expensesTbl,          \* public.expenses, a sequence of rows
    incomesTbl,           \* public.incomes
    budgetsTbl,           \* public.budgets
    nextId,               \* the id gen_random_uuid() gives the next inserted row
    \* ---- Analytics view (src/pages/Analytics.tsx) ----
    totalExpenses, totalIncome, avgTransaction,
    expenseCategoryData, incomeCategoryData, transactionCount,
    anPc,                 \* position of fetchAnalytics
    anExpenses,           \* { data: expenses, error: expenseError }
    anIncomes,            \* { data: incomes, error: incomeError }
    \* ---- Analytics view, expenses-only revision ----
    v1TotalExpenses, v1AvgTransaction, categoryData, v1TransactionCount,
    v1Pc,
    v1Expenses,           \* { data: expenses, error }
    \* ---- Home view ----
    expenses, incomes, budget, totalSpent, totalIncomeHome,
    fbPc, fbResp,         \* fetchBudget: position, { data, error }
    fePc, feResp,         \* fetchExpenses
    fiPc, fiResp,         \* fetchIncomes
    \* ---- Trends view ----
    monthlyData,
    trPc,                 \* position of fetchTrends
    trI,                  \* the loop variable i
    trMonths,             \* the local array months
    trExpenses,           \* { data: expenses, error } of this iteration
    trIncomes,            \* { data: incomes, error } of this iteration
    trDate,               \* the local constant date of this iteration (its month)
    clock,                \* months the clock has passed into since the view opened
    \* ---- Home view: the form and the handlers that write ----
    dialogOpen, activeTab,
    editingExpense,       \* the id of the expense being edited, 0 for null
    editingIncome,        \* the id of the income being edited, 0 for null
    formData,             \* [amount, category, date] (the title is not modelled)
    writeCalls,           \* invocations of handleSubmit / handleDelete*, in order
    fetchCalls,           \* invocations of fetchExpenses / fetchIncomes by them
    userEvents,           \* clicks and inputs of the user the view has handled
    \* ---- Settings view, one per open session of the user ----
    loading,
    svPc,                 \* position of handleSaveBudget
    svExisting,           \* the id of `existing`, 0 for null
    svAmount,             \* budgetAmount
    svToast,              \* the toast shown last
    \* ---- a client of the store's API that runs no view ----
    apiRequest,           \* the last request: its auth.uid(), operation, table, target
    apiReply,             \* the rows the last request returned
    apiCount              \* requests made

storeVars == <<expensesTbl, incomesTbl, budgetsTbl, nextId>>
analyticsVars == <<totalExpenses, totalIncome, avgTransaction,
                   expenseCategoryData, incomeCategoryData, transactionCount,
                   anPc, anExpenses, anIncomes>>
analyticsV1Vars == <<v1TotalExpenses, v1AvgTransaction, categoryData,
                     v1TransactionCount, v1Pc, v1Expenses>>
homeVars == <<expenses, incomes, budget, totalSpent, totalIncomeHome,
              fbPc, fbResp, fePc, feResp, fiPc, fiResp>>
trendsVars == <<monthlyData, trPc, trI, trMonths, trExpenses, trIncomes,
                trDate, clock>>
formVars == <<dialogOpen, activeTab, editingExpense, editingIncome, formData,
              writeCalls, fetchCalls, userEvents>>
settingsVars == <<loading, svPc, svExisting, svAmount, svToast>>
apiVars == <<apiRequest, apiReply, apiCount>>
vars == <<page, storeVars, analyticsVars, analyticsV1Vars, homeVars, trendsVars,
          formVars, settingsVars, apiVars>>

(***************************************************************************)
(* Bounds of the model.                                                    *)
(***************************************************************************)
MaxRows == 3          \* rows held by the transaction tables of an initial store
MaxAmount == 3        \* largest amount of a row of an initial store
MaxBudget == 10       \* largest budget amount of an initial store
MaxMonthTurns == 1    \* times the clock passes into a next month while a view is open

(***************************************************************************)
(* Users, categories, instants.                                            *)
(***************************************************************************)
Me == "u1"
Other == "u2"
NoUser == "none"

EXPENSE_CATEGORIES ==
    <<"Food", "Transport", "Shopping", "Entertainment", "Bills", "Health", "Other">>
INCOME_CATEGORIES ==
    <<"Salary", "Freelance", "Investment", "Gift", "Business", "Other">>

\* new Date(): the month the views are opened in
CurMonth == 12

Positions == {"first", "mid", "lastStart", "lastLate"}

\* the order of the instants of one month: its first instant (day 1, 00:00),
\* an instant before the last day, the last day at 00:00, later on the last day
PosRank(p) ==
    CASE p = "first" -> 0
      [] p = "mid" -> 1
      [] p = "lastStart" -> 2
      [] p = "lastLate" -> 3

DateLE(a, b) ==
    \/ a.month < b.month
    \/ a.month = b.month /\ PosRank(a.pos) <= PosRank(b.pos)

\* new Date(y, m, 1)
FirstDay(m) == [month |-> m, pos |-> "first"]
\* new Date(y, m + 1, 0): the last day of the month at 00:00
LastDay(m) == [month |-> m, pos |-> "lastStart"]

(***************************************************************************)
(* The store's replies.                                                    *)
(***************************************************************************)
\* before any reply
NoResp == [error |-> FALSE, isNull |-> TRUE, data |-> <<>>]
\* { data: rows, error: null }
OkResp(rows) == [error |-> FALSE, isNull |-> FALSE, data |-> rows]
\* { data: null, error: {...} }
ErrResp == [error |-> TRUE, isNull |-> TRUE, data |-> <<>>]

\* a policy that lets every request through
Policy_Permissive(uid, row) == TRUE

\* USING (auth.uid() = user_id), WITH CHECK (auth.uid() = user_id)
Policy(uid, row) == uid = row.user_id

\* row level security of a select: the rows the SELECT policy lets the user see
RlsVisible(tbl, uid) == SelectSeq(tbl, LAMBDA r : Policy(uid, r))

\* .select("*").eq("user_id", user).gte("date", from).lte("date", to)
RangeQuery(tbl, uid, from, to) ==
    SelectSeq(RlsVisible(tbl, uid),
              LAMBDA r : r.user_id = uid /\ DateLE(from, r.date) /\ DateLE(r.date, to))

(***************************************************************************)
(* Aggregation, as the views compute it.                                   *)
(***************************************************************************)
RECURSIVE ReduceFrom(_, _, _)
ReduceFrom(list, k, sum) ==
    IF k > Len(list) THEN sum
    ELSE ReduceFrom(list, k + 1, sum + list[k].amount)

\* a reduce that is not given its initial value 0: the first element seeds the sum
ReduceAmounts_NoInitialValue(list) ==
    IF list = <<>> THEN 0 ELSE ReduceFrom(list, 2, 0)

\* list.reduce((sum, t) => sum + Number(t.amount), 0)
ReduceAmounts(list) == ReduceFrom(list, 1, 0)

\* an exact quotient n / d
Frac(n, d) == [num |-> n, den |-> d]

Abs(n) == IF n < 0 THEN 0 - n ELSE n

\* a rounding that truncates the second decimal instead of rounding it
ToFixed1_Truncate(n, d) ==
    IF d = 0 THEN [finite |-> FALSE, tenths |-> 0]
    ELSE LET q == (10 * Abs(n)) \div Abs(d)
         IN  [finite |-> TRUE,
              tenths |-> IF (n < 0) = (d < 0) THEN q ELSE 0 - q]

\* x.toFixed(1) for x = n / d, as a number of tenths (halves round away from 0);
\* a division by zero gives the strings "NaN" or "Infinity": finite is FALSE
ToFixed1(n, d) ==
    IF d = 0 THEN [finite |-> FALSE, tenths |-> 0]
    ELSE LET q == (2 * 10 * Abs(n) + Abs(d)) \div (2 * Abs(d))
         IN  [finite |-> TRUE,
              tenths |-> IF (n < 0) = (d < 0) THEN q ELSE 0 - q]

\* the index of the entry of a Map with this key, 0 when there is none
RECURSIVE MapIndex(_, _, _)
MapIndex(map, key, k) ==
    IF k > Len(map) THEN 0
    ELSE IF map[k].name = key THEN k
    ELSE MapIndex(map, key, k + 1)

\* a set that overwrites the category's sum with the row's amount
MapAdd_Overwrite(map, row) ==
    LET k == MapIndex(map, row.category, 1)
    IN  IF k = 0
        THEN Append(map, [name |-> row.category, value |-> row.amount])
        ELSE [map EXCEPT ![k] = [name |-> row.category, value |-> row.amount]]

\* categoryMap.set(category, (categoryMap.get(category) || 0) + Number(amount))
MapAdd(map, row) ==
    LET k == MapIndex(map, row.category, 1)
        current == IF k = 0 THEN 0 ELSE map[k].value
    IN  IF k = 0
        THEN Append(map, [name |-> row.category, value |-> current + row.amount])
        ELSE [map EXCEPT ![k] = [name |-> row.category, value |-> current + row.amount]]

RECURSIVE CategoryMapFrom(_, _, _)
CategoryMapFrom(list, k, map) ==
    IF k > Len(list) THEN map
    ELSE CategoryMapFrom(list, k + 1, MapAdd(map, list[k]))

\* the Map built by list.forEach, in insertion order of the keys
CategoryMap(list) == CategoryMapFrom(list, 1, <<>>)

\* the percentage without the guard on total
GuardedPercentage_NoGuard(value, total) == ToFixed1(value * 100, total)

\* total > 0 ? ((value / total) * 100).toFixed(1) : "0"
GuardedPercentage(value, total) ==
    IF total > 0 THEN ToFixed1(value * 100, total)
    ELSE [finite |-> TRUE, tenths |-> 0]

\* ((value / total) * 100).toFixed(1)
UnguardedPercentage(value, total) == ToFixed1(value * 100, total)

\* Array.from(categoryMap.entries()).map(...) of Analytics.tsx
ChartData(list, total) ==
    LET map == CategoryMap(list)
    IN  [k \in 1..Len(map) |->
            [name |-> map[k].name, value |-> map[k].value,
             percentage |-> GuardedPercentage(map[k].value, total)]]

\* the same of the expenses-only revision
ChartDataV1(list, total) ==
    LET map == CategoryMap(list)
    IN  [k \in 1..Len(map) |->
            [name |-> map[k].name, value |-> map[k].value,
             percentage |-> UnguardedPercentage(map[k].value, total)]]

\* the average without the guard on the length
Average_NoGuard(total, length) == Frac(total, length)

\* expenses.length > 0 ? total / expenses.length : 0
Average(total, length) == IF length > 0 THEN Frac(total, length) ELSE Frac(0, 1)

(***************************************************************************)
(* Initial stores.  A table is a sequence of rows                          *)
(*   [id, user_id, amount, category, date].                                *)
(* The physical order of the rows of a table is immaterial to the views    *)
(* (they sum and group), so initial tables are enumerated up to            *)
(* permutation of their rows.                                              *)
(***************************************************************************)
MidOf(m) == [month |-> m, pos |-> "mid"]

\* the kinds of expense rows of an initial store: the user's rows of the
\* current month (amount > 0 by the CHECK constraint, three categories), one
\* row of the user's previous month, and one row of the user dated on the last
\* day of the current month after 00:00
ExpenseKinds ==
    [k \in 1..(3 * MaxAmount) |->
        [user_id |-> Me, amount |-> ((k - 1) % MaxAmount) + 1,
         category |-> EXPENSE_CATEGORIES[((k - 1) \div MaxAmount) + 1],
         date |-> MidOf(CurMonth)]]
    \o <<[user_id |-> Me, amount |-> 1, category |-> EXPENSE_CATEGORIES[1],
          date |-> MidOf(CurMonth - 1)],
         [user_id |-> Me, amount |-> 1, category |-> EXPENSE_CATEGORIES[1],
          date |-> [month |-> CurMonth, pos |-> "lastLate"]]>>

\* the kinds of income rows: the user's rows of the current month (public.incomes
\* has no CHECK on amount and the form's number input has no minimum, so an
\* amount may be 0 or negative; two categories), and one row of another user
IncomeKinds ==
    [k \in 1..(2 * (MaxAmount + 2)) |->
        [user_id |-> Me, amount |-> ((k - 1) % (MaxAmount + 2)) - 1,
         category |-> INCOME_CATEGORIES[((k - 1) \div (MaxAmount + 2)) + 1],
         date |-> MidOf(CurMonth)]]
    \o <<[user_id |-> Other, amount |-> 1, category |-> INCOME_CATEGORIES[1],
          date |-> MidOf(CurMonth)]>>

WithId(kind, i) ==
    [id |-> i, user_id |-> kind.user_id, amount |-> kind.amount,
     category |-> kind.category, date |-> kind.date]

\* the tables of exactly n rows drawn from kinds, up to permutation
TablesOf(kinds, n) ==
    { [i \in 1..n |-> WithId(kinds[f[i]], i)] :
        f \in { g \in [1..n -> 1..Len(kinds)] :
                  \A i \in 1..(n - 1) : g[i] <= g[i + 1] } }

\* the state of the Analytics view after useState(...)
InitAnalyticsView ==
    /\ totalExpenses = 0
    /\ totalIncome = 0
    /\ avgTransaction = Frac(0, 1)
    /\ expenseCategoryData = <<>>
    /\ incomeCategoryData = <<>>
    /\ transactionCount = 0
    /\ anPc = "start"
    /\ anExpenses = NoResp
    /\ anIncomes = NoResp

InitAnalyticsV1View ==
    /\ v1TotalExpenses = 0
    /\ v1AvgTransaction = Frac(0, 1)
    /\ categoryData = <<>>
    /\ v1TransactionCount = 0
    /\ v1Pc = "start"
    /\ v1Expenses = NoResp

\* the state of the Home view after useState(...)
InitHomeView ==
    /\ expenses = <<>>
    /\ incomes = <<>>
    /\ budget = 0
    /\ totalSpent = 0
    /\ totalIncomeHome = 0
    /\ fbPc = "start" /\ fbResp = [error |-> FALSE, isNull |-> TRUE, amount |-> 0]
    /\ fePc = "start" /\ feResp = NoResp
    /\ fiPc = "start" /\ fiResp = NoResp

\* the state of the Trends view after useState(...)
InitTrendsView ==
    /\ monthlyData = <<>>
    /\ trPc = "start"
    /\ trI = 5
    /\ trMonths = <<>>
    /\ trExpenses = NoResp
    /\ trIncomes = NoResp
    /\ trDate = CurMonth - 5
    /\ clock = 0

\* format(date, "yyyy-MM-dd"): the calendar day of an instant
FormatDay(date) ==
    [month |-> date.month,
     day |-> CASE date.pos = "first" -> "first"
               [] date.pos = "mid" -> "mid"
               [] date.pos \in {"lastStart", "lastLate"} -> "last"]

\* new Date("yyyy-MM-dd").toISOString(): 00:00 of that day (in a time zone
\* without offset to UTC)
DayToISOString(d) ==
    [month |-> d.month,
     pos |-> CASE d.day = "first" -> "first"
               [] d.day = "mid" -> "mid"
               [] d.day = "last" -> "lastStart"]

\* the reset value of formData on a tab:
\*   { title: "", amount: "", category: <first category of the tab>, date: today }
\* (amount is <<>> for the empty string and <<n>> for the digits of n)
EmptyForm(tab) ==
    [amount |-> <<>>,
     category |-> IF tab = "expenses" THEN EXPENSE_CATEGORIES[1]
                                      ELSE INCOME_CATEGORIES[1],
     date |-> FormatDay(MidOf(CurMonth))]

\* the state of the form of the Home view after useState(...)
InitFormView ==
    /\ dialogOpen = FALSE
    /\ activeTab = "expenses"
    /\ editingExpense = 0
    /\ editingIncome = 0
    /\ formData = EmptyForm("expenses")
    /\ writeCalls = <<>>
    /\ fetchCalls = <<>>
    /\ userEvents = 0

\* the sessions the user has the Settings view open in
Sessions == {"s1", "s2"}

\* the state of the Settings view after useState(...)
InitSettingsView ==
    /\ loading = [s \in Sessions |-> FALSE]
    /\ svPc = [s \in Sessions |-> "idle"]
    /\ svExisting = [s \in Sessions |-> 0]
    /\ svAmount = [s \in Sessions |-> 0]
    /\ svToast = [s \in Sessions |-> "none"]

\* no request has been made
NoRequest == [user |-> NoUser, op |-> "none", table |-> "none", id |-> 0]

InitApi ==
    /\ apiRequest = NoRequest
    /\ apiReply = <<>>
    /\ apiCount = 0

\* an id no row of the three tables has
FreshId(e, i, b) ==
    LET ids == {0} \cup { e[k].id : k \in 1..Len(e) }
                   \cup { i[k].id : k \in 1..Len(i) }
                   \cup { b[k].id : k \in 1..Len(b) }
    IN  1 + CHOOSE m \in ids : \A n \in ids : n <= m

(***************************************************************************)
(* Analytics view: fetchAnalytics of src/pages/Analytics.tsx.              *)
(***************************************************************************)
\* getUser, then the expenses query of the current month
fetchAnalyticsExpenses ==
    /\ page = "analytics"
    /\ anPc = "start"
    /\ \E user \in {NoUser, Me} :
        \/ /\ user = NoUser
           /\ anPc' = "done"
           /\ UNCHANGED anExpenses
        \/ /\ user # NoUser
           /\ anPc' = "incomes"
           /\ \/ anExpenses' = OkResp(RangeQuery(expensesTbl, user,
                                   FirstDay(CurMonth), LastDay(CurMonth)))
              \/ anExpenses' = ErrResp
    /\ UNCHANGED <<totalExpenses, totalIncome, avgTransaction, expenseCategoryData,
                   incomeCategoryData, transactionCount, anIncomes>>
    /\ UNCHANGED <<formVars, settingsVars, apiVars>>
    /\ UNCHANGED <<page, storeVars, analyticsV1Vars, homeVars, trendsVars>>

\* the incomes query of the current month
fetchAnalyticsIncomes ==
    /\ page = "analytics"
    /\ anPc = "incomes"
    /\ anPc' = "process"
    /\ \/ anIncomes' = OkResp(RangeQuery(incomesTbl, Me,
                              FirstDay(CurMonth), LastDay(CurMonth)))
       \/ anIncomes' = ErrResp
    /\ UNCHANGED <<totalExpenses, totalIncome, avgTransaction, expenseCategoryData,
                   incomeCategoryData, transactionCount, anExpenses>>
    /\ UNCHANGED <<formVars, settingsVars, apiVars>>
    /\ UNCHANGED <<page, storeVars, analyticsV1Vars, homeVars, trendsVars>>

\* a check that reads the error of the expenses query only
FetchFailed_ExpenseOnly(expResp, incResp) == expResp.error

\* if (expenseError || incomeError)
FetchFailed(expResp, incResp) == expResp.error \/ incResp.error

\* the error check and the two "Process" blocks
fetchAnalyticsProcess ==
    /\ page = "analytics"
    /\ anPc = "process"
    /\ anPc' = "done"
    /\ \/ /\ FetchFailed(anExpenses, anIncomes)
          /\ UNCHANGED <<totalExpenses, totalIncome, avgTransaction,
                         expenseCategoryData, incomeCategoryData, transactionCount>>
       \/ /\ ~FetchFailed(anExpenses, anIncomes)
          /\ IF ~anExpenses.isNull
             THEN LET total == ReduceAmounts(anExpenses.data)
                  IN  /\ totalExpenses' = total
                      /\ transactionCount' =
                            Len(anExpenses.data)
                            + (IF anIncomes.isNull THEN 0 ELSE Len(anIncomes.data))
                      /\ avgTransaction' = Average(total, Len(anExpenses.data))
                      /\ expenseCategoryData' = ChartData(anExpenses.data, total)
             ELSE UNCHANGED <<totalExpenses, transactionCount, avgTransaction,
                              expenseCategoryData>>
          /\ IF ~anIncomes.isNull
             THEN LET total == ReduceAmounts(anIncomes.data)
                  IN  /\ totalIncome' = total
                      /\ incomeCategoryData' = ChartData(anIncomes.data, total)
             ELSE UNCHANGED <<totalIncome, incomeCategoryData>>
    /\ UNCHANGED <<anExpenses, anIncomes>>
    /\ UNCHANGED <<formVars, settingsVars, apiVars>>
    /\ UNCHANGED <<page, storeVars, analyticsV1Vars, homeVars, trendsVars>>

\* a net balance with its operands exchanged
anNetBalance_Swapped == totalExpenses - totalIncome

\* const netBalance = totalIncome - totalExpenses
anNetBalance == totalIncome - totalExpenses

(***************************************************************************)
(* Analytics view, expenses-only revision: its fetchAnalytics.             *)
(***************************************************************************)
fetchAnalyticsV1 ==
    /\ page = "analyticsV1"
    /\ v1Pc = "start"
    /\ v1Pc' = "done"
    /\ \E user \in {NoUser, Me} :
        \/ /\ user = NoUser
           /\ UNCHANGED <<v1TotalExpenses, v1AvgTransaction, categoryData,
                          v1TransactionCount, v1Expenses>>
        \/ /\ user # NoUser
           /\ \/ v1Expenses' = OkResp(RangeQuery(expensesTbl, user,
                                   FirstDay(CurMonth), LastDay(CurMonth)))
              \/ v1Expenses' = ErrResp
           /\ IF v1Expenses'.error \/ v1Expenses'.isNull
              THEN UNCHANGED <<v1TotalExpenses, v1AvgTransaction, categoryData,
                               v1TransactionCount>>
              ELSE LET total == ReduceAmounts(v1Expenses'.data)
                   IN  /\ v1TotalExpenses' = total
                       /\ v1TransactionCount' = Len(v1Expenses'.data)
                       /\ v1AvgTransaction' = Average(total, Len(v1Expenses'.data))
                       /\ categoryData' = ChartDataV1(v1Expenses'.data, total)
    /\ UNCHANGED <<formVars, settingsVars, apiVars>>
    /\ UNCHANGED <<page, storeVars, analyticsVars, homeVars, trendsVars>>

(***************************************************************************)
(* Home view.                                                              *)
(***************************************************************************)
\* replies of the budgets query: { data: { amount } | null, error }
NoBudgetResp == [error |-> FALSE, isNull |-> TRUE, amount |-> 0]
OkBudgetResp(row) == [error |-> FALSE, isNull |-> FALSE, amount |-> row.amount]
NullBudgetResp == [error |-> FALSE, isNull |-> TRUE, amount |-> 0]
ErrBudgetResp == [error |-> TRUE, isNull |-> TRUE, amount |-> 0]

\* .select("amount").eq("user_id", user).eq("month", currentMonth).maybeSingle()
MaybeSingleBudget(tbl, uid, month) ==
    LET rows == SelectSeq(RlsVisible(tbl, uid),
                          LAMBDA r : r.user_id = uid /\ r.month = month)
    IN  IF Len(rows) = 0 THEN NullBudgetResp
        ELSE IF Len(rows) = 1 THEN OkBudgetResp(rows[1])
        ELSE ErrBudgetResp

\* the place of a row in a list ordered by date, latest first; rows of equal
\* date keep the order the table has them in
RECURSIVE InsertByDateDesc(_, _)
InsertByDateDesc(sorted, row) ==
    IF sorted = <<>> THEN <<row>>
    ELSE IF DateLE(row.date, Head(sorted).date)
              THEN <<Head(sorted)>> \o InsertByDateDesc(Tail(sorted), row)
              ELSE <<row>> \o sorted

RECURSIVE OrderFrom(_, _, _)
OrderFrom(list, k, sorted) ==
    IF k > Len(list) THEN sorted
    ELSE OrderFrom(list, k + 1, InsertByDateDesc(sorted, list[k]))

\* .order("date", { ascending: false })
OrderByDateDesc(list) == OrderFrom(list, 1, <<>>)

\* fetchBudget up to the reply of the store
fetchBudgetQuery ==
    /\ page = "home"
    /\ fbPc = "start"
    /\ \E user \in {NoUser, Me} :
        \/ /\ user = NoUser
           /\ fbPc' = "done"
           /\ UNCHANGED fbResp
        \/ /\ user # NoUser
           /\ fbPc' = "await"
           /\ \/ fbResp' = MaybeSingleBudget(budgetsTbl, user, CurMonth)
              \/ fbResp' = ErrBudgetResp
    /\ UNCHANGED <<expenses, incomes, budget, totalSpent, totalIncomeHome,
                   fePc, feResp, fiPc, fiResp>>
    /\ UNCHANGED <<formVars, settingsVars, apiVars>>
    /\ UNCHANGED <<page, storeVars, analyticsVars, analyticsV1Vars, trendsVars>>

\* the budget of an error-free reply: data?.amount || 0
BudgetOf(resp) == IF resp.isNull THEN 0 ELSE resp.amount

\* fetchBudget from the reply on
fetchBudgetDone ==
    /\ page = "home"
    /\ fbPc = "await"
    /\ fbPc' = "done"
    /\ \/ /\ fbResp.error
          /\ UNCHANGED budget
       \/ /\ ~fbResp.error
          /\ budget' = BudgetOf(fbResp)
    /\ UNCHANGED <<expenses, incomes, totalSpent, totalIncomeHome,
                   fbResp, fePc, feResp, fiPc, fiResp>>
    /\ UNCHANGED <<formVars, settingsVars, apiVars>>
    /\ UNCHANGED <<page, storeVars, analyticsVars, analyticsV1Vars, trendsVars>>

\* fetchExpenses up to the reply of the store
fetchExpensesQuery ==
    /\ page = "home"
    /\ fePc = "start"
    /\ \E user \in {NoUser, Me} :
        \/ /\ user = NoUser
           /\ fePc' = "done"
           /\ UNCHANGED feResp
        \/ /\ user # NoUser
           /\ fePc' = "await"
           /\ \/ feResp' = OkResp(OrderByDateDesc(RangeQuery(expensesTbl, user,
                                    FirstDay(CurMonth), LastDay(CurMonth))))
              \/ feResp' = ErrResp
    /\ UNCHANGED <<expenses, incomes, budget, totalSpent, totalIncomeHome,
                   fbPc, fbResp, fiPc, fiResp>>
    /\ UNCHANGED <<formVars, settingsVars, apiVars>>
    /\ UNCHANGED <<page, storeVars, analyticsVars, analyticsV1Vars, trendsVars>>

\* data || []
DataOrEmpty(resp) == IF resp.isNull THEN <<>> ELSE resp.data

\* a continuation of fetchExpenses that stores the list and not its total
fetchExpensesDone_ListOnly ==
    /\ page = "home"
    /\ fePc = "await"
    /\ fePc' = "done"
    /\ \/ /\ feResp.error
          /\ UNCHANGED <<expenses, totalSpent>>
       \/ /\ ~feResp.error
          /\ expenses' = DataOrEmpty(feResp)
          /\ UNCHANGED totalSpent
    /\ UNCHANGED <<incomes, budget, totalIncomeHome,
                   fbPc, fbResp, feResp, fiPc, fiResp>>
    /\ UNCHANGED <<formVars, settingsVars, apiVars>>
    /\ UNCHANGED <<page, storeVars, analyticsVars, analyticsV1Vars, trendsVars>>

\* fetchExpenses from the reply on
fetchExpensesDone ==
    /\ page = "home"
    /\ fePc = "await"
    /\ fePc' = "done"
    /\ \/ /\ feResp.error
          /\ UNCHANGED <<expenses, totalSpent>>
       \/ /\ ~feResp.error
          /\ expenses' = DataOrEmpty(feResp)
          /\ totalSpent' = ReduceAmounts(DataOrEmpty(feResp))
    /\ UNCHANGED <<incomes, budget, totalIncomeHome,
                   fbPc, fbResp, feResp, fiPc, fiResp>>
    /\ UNCHANGED <<formVars, settingsVars, apiVars>>
    /\ UNCHANGED <<page, storeVars, analyticsVars, analyticsV1Vars, trendsVars>>

\* fetchIncomes up to the reply of the store
fetchIncomesQuery ==
    /\ page = "home"
    /\ fiPc = "start"
    /\ \E user \in {NoUser, Me} :
        \/ /\ user = NoUser
           /\ fiPc' = "done"
           /\ UNCHANGED fiResp
        \/ /\ user # NoUser
           /\ fiPc' = "await"
           /\ \/ fiResp' = OkResp(OrderByDateDesc(RangeQuery(incomesTbl, user,
                                    FirstDay(CurMonth), LastDay(CurMonth))))
              \/ fiResp' = ErrResp
    /\ UNCHANGED <<expenses, incomes, budget, totalSpent, totalIncomeHome,
                   fbPc, fbResp, fePc, feResp>>
    /\ UNCHANGED <<formVars, settingsVars, apiVars>>
    /\ UNCHANGED <<page, storeVars, analyticsVars, analyticsV1Vars, trendsVars>>

\* a continuation of fetchIncomes that also writes the expense total
fetchIncomesDone_ResetsSpent ==
    /\ page = "home"
    /\ fiPc = "await"
    /\ fiPc' = "done"
    /\ totalSpent' = 0
    /\ \/ /\ fiResp.error
          /\ UNCHANGED <<incomes, totalIncomeHome>>
       \/ /\ ~fiResp.error
          /\ incomes' = DataOrEmpty(fiResp)
          /\ totalIncomeHome' = ReduceAmounts(DataOrEmpty(fiResp))
    /\ UNCHANGED <<expenses, budget, fbPc, fbResp, fePc, feResp, fiResp>>
    /\ UNCHANGED <<formVars, settingsVars, apiVars>>
    /\ UNCHANGED <<page, storeVars, analyticsVars, analyticsV1Vars, trendsVars>>

\* fetchIncomes from the reply on
fetchIncomesDone ==
    /\ page = "home"
    /\ fiPc = "await"
    /\ fiPc' = "done"
    /\ \/ /\ fiResp.error
          /\ UNCHANGED <<incomes, totalIncomeHome>>
       \/ /\ ~fiResp.error
          /\ incomes' = DataOrEmpty(fiResp)
          /\ totalIncomeHome' = ReduceAmounts(DataOrEmpty(fiResp))
    /\ UNCHANGED <<expenses, budget, totalSpent,
                   fbPc, fbResp, fePc, feResp, fiResp>>
    /\ UNCHANGED <<formVars, settingsVars, apiVars>>
    /\ UNCHANGED <<page, storeVars, analyticsVars, analyticsV1Vars, trendsVars>>

\* the percentage without the guard on budget
budgetPercentage_NoGuard == Frac(totalSpent * 100, budget)

\* budget > 0 ? (totalSpent / budget) * 100 : 0
budgetPercentage ==
    IF budget > 0 THEN Frac(totalSpent * 100, budget) ELSE Frac(0, 1)

\* a remaining amount that is clamped at 0
remaining_Clamped == IF budget - totalSpent < 0 THEN 0 ELSE budget - totalSpent

\* budget - totalSpent
remaining == budget - totalSpent

\* a net balance with its operands exchanged
netBalance_Swapped == totalSpent - totalIncomeHome

\* const netBalance = totalIncome - totalSpent
netBalance == totalIncomeHome - totalSpent

\* f >= k, for a fraction f of positive denominator
FracGE(f, k) == f.num >= k * f.den

\* an alert that starts above 90 instead of at 90
budgetAlert_StrictNinety ==
    IF budgetPercentage.num > 90 * budgetPercentage.den
    THEN IF FracGE(budgetPercentage, 100)
         THEN "Budget exceeded!"
         ELSE "Approaching budget limit"
    ELSE "none"

\* an alert that has the one text "Approaching budget limit"
budgetAlert_OneText ==
    IF FracGE(budgetPercentage, 90) THEN "Approaching budget limit" ELSE "none"

\* the alert of the overview card:
\*   {budgetPercentage >= 90 && (... budgetPercentage >= 100
\*        ? "Budget exceeded!" : "Approaching budget limit" ...)}
budgetAlert ==
    IF FracGE(budgetPercentage, 90)
    THEN IF FracGE(budgetPercentage, 100)
         THEN "Budget exceeded!"
         ELSE "Approaching budget limit"
    ELSE "none"

(***************************************************************************)
(* Trends view: fetchTrends.                                               *)
(***************************************************************************)
\* startOfMonth(date)
StartOfMonth(m) == [month |-> m, pos |-> "first"]
\* endOfMonth(date): the last instant of the last day
EndOfMonth(m) == [month |-> m, pos |-> "lastLate"]

\* format(date, "MMM"): the name of the month, as its number in the year
MonthLabel(m) == m % 12

\* getUser, const months = [], let i = 5
fetchTrendsStart ==
    /\ page = "trends"
    /\ trPc = "start"
    /\ \E user \in {NoUser, Me} :
        \/ /\ user = NoUser
           /\ trPc' = "done"
        \/ /\ user # NoUser
           /\ trPc' = "expenses"
    /\ trI' = 5
    /\ trMonths' = <<>>
    /\ UNCHANGED <<monthlyData, trExpenses, trIncomes, trDate, clock>>
    /\ UNCHANGED <<formVars, settingsVars, apiVars>>
    /\ UNCHANGED <<page, storeVars, analyticsVars, analyticsV1Vars, homeVars>>

\* new Date(), read when the clock has passed into `passed` further months
Now(passed) == CurMonth + passed

\* subMonths(date, i)
SubMonths(m, i) == m - i

\* const date = subMonths(new Date(), i), and the expenses query of its month
fetchTrendsExpenses ==
    /\ page = "trends"
    /\ trPc = "expenses"
    /\ trPc' = "incomes"
    /\ trDate' = SubMonths(Now(clock), trI)
    /\ \/ trExpenses' = OkResp(RangeQuery(expensesTbl, Me,
                               StartOfMonth(trDate'), EndOfMonth(trDate')))
       \/ trExpenses' = ErrResp
    /\ UNCHANGED <<monthlyData, trI, trMonths, trIncomes, clock>>
    /\ UNCHANGED <<formVars, settingsVars, apiVars>>
    /\ UNCHANGED <<page, storeVars, analyticsVars, analyticsV1Vars, homeVars>>

\* the incomes query of the same month
fetchTrendsIncomes ==
    /\ page = "trends"
    /\ trPc = "incomes"
    /\ trPc' = "push"
    /\ \/ trIncomes' = OkResp(RangeQuery(incomesTbl, Me,
                              StartOfMonth(trDate), EndOfMonth(trDate)))
       \/ trIncomes' = ErrResp
    /\ UNCHANGED <<monthlyData, trI, trMonths, trExpenses, trDate, clock>>
    /\ UNCHANGED <<formVars, settingsVars, apiVars>>
    /\ UNCHANGED <<page, storeVars, analyticsVars, analyticsV1Vars, homeVars>>

\* the entry pushed for month m from the two replies (their error is not read)
MonthEntry(m, expResp, incResp) ==
    LET expenseTotal == ReduceAmounts(DataOrEmpty(expResp))
        incomeTotal == ReduceAmounts(DataOrEmpty(incResp))
    IN  [month |-> MonthLabel(m), expenses |-> expenseTotal,
         income |-> incomeTotal, net |-> incomeTotal - expenseTotal]

\* a loop that publishes the series after every month
fetchTrendsPush_PublishesEachMonth ==
    /\ page = "trends"
    /\ trPc = "push"
    /\ trMonths' = Append(trMonths, MonthEntry(trDate, trExpenses, trIncomes))
    /\ trI' = trI - 1
    /\ trPc' = IF trI - 1 >= 0 THEN "expenses" ELSE "done"
    /\ monthlyData' = trMonths'
    /\ UNCHANGED <<trExpenses, trIncomes, trDate, clock>>
    /\ UNCHANGED <<formVars, settingsVars, apiVars>>
    /\ UNCHANGED <<page, storeVars, analyticsVars, analyticsV1Vars, homeVars>>

\* months.push(...), i--, and after the last month setMonthlyData(months)
fetchTrendsPush ==
    /\ page = "trends"
    /\ trPc = "push"
    /\ trMonths' = Append(trMonths, MonthEntry(trDate, trExpenses, trIncomes))
    /\ trI' = trI - 1
    /\ \/ /\ trI - 1 >= 0
          /\ trPc' = "expenses"
          /\ UNCHANGED monthlyData
       \/ /\ trI - 1 < 0
          /\ trPc' = "done"
          /\ monthlyData' = trMonths'
    /\ UNCHANGED <<trExpenses, trIncomes, trDate, clock>>
    /\ UNCHANGED <<formVars, settingsVars, apiVars>>
    /\ UNCHANGED <<page, storeVars, analyticsVars, analyticsV1Vars, homeVars>>

\* the clock passes into the next month while the Trends view is open: the
\* new Date() of a later iteration of the loop reads the new month
monthTurns ==
    /\ page = "trends"
    /\ clock < MaxMonthTurns
    /\ clock' = clock + 1
    /\ UNCHANGED <<monthlyData, trPc, trI, trMonths, trExpenses, trIncomes, trDate>>
    /\ UNCHANGED <<formVars, settingsVars, apiVars>>
    /\ UNCHANGED <<page, storeVars, analyticsVars, analyticsV1Vars, homeVars>>

(***************************************************************************)
(* Initial states: one view is mounted, on a store that holds rows of the  *)
(* kinds that view reads.                                                  *)
(***************************************************************************)
MaxTrendRows == 2     \* rows held by the store the Trends view is opened on

\* the budget rows [id, user_id, month, amount] of an initial store: at most one
\* row per (user_id, month) by the UNIQUE constraint, amount > 0 by the CHECK
BudgetTables ==
    { mine \o others :
        mine \in {<<>>} \cup
                 { <<[id |-> 1, user_id |-> Me, month |-> CurMonth, amount |-> a]>> :
                     a \in 1..MaxBudget },
        others \in { <<>>,
                     <<[id |-> 2, user_id |-> Other, month |-> CurMonth, amount |-> 1],
                       [id |-> 3, user_id |-> Me, month |-> CurMonth - 1, amount |-> 1]>> } }

\* the expense rows of the store the Home view is opened on: the user's rows of
\* the current month in one category, and one row of the user's previous month
HomeExpenseKinds ==
    [k \in 1..MaxAmount |->
        [user_id |-> Me, amount |-> k, category |-> EXPENSE_CATEGORIES[1],
         date |-> MidOf(CurMonth)]]
    \o <<[user_id |-> Me, amount |-> 1, category |-> EXPENSE_CATEGORIES[1],
          date |-> MidOf(CurMonth - 1)]>>

HomeIncomeKinds ==
    <<[user_id |-> Me, amount |-> MaxAmount, category |-> INCOME_CATEGORIES[1],
       date |-> MidOf(CurMonth)]>>

\* the rows of the store the Trends view is opened on: the user's rows of the
\* newest and the oldest month of the window and of the month before it, of
\* amount 1 or 2
TrendMonths == <<CurMonth, CurMonth - 5, CurMonth - 6>>

TrendExpenseKinds ==
    [k \in 1..(2 * Len(TrendMonths)) |->
        [user_id |-> Me, amount |-> ((k - 1) % 2) + 1,
         category |-> EXPENSE_CATEGORIES[1],
         date |-> MidOf(TrendMonths[((k - 1) \div 2) + 1])]]

TrendIncomeKinds ==
    [k \in 1..(2 * Len(TrendMonths)) |->
        [user_id |-> Me, amount |-> ((k - 1) % 2) + 1,
         category |-> INCOME_CATEGORIES[1],
         date |-> MidOf(TrendMonths[((k - 1) \div 2) + 1])]]

InitAnalyticsStore ==
    /\ \E e \in 0..MaxRows : \E i \in 0..(MaxRows - e) :
         /\ expensesTbl \in TablesOf(ExpenseKinds, e)
         /\ incomesTbl \in TablesOf(IncomeKinds, i)
    /\ budgetsTbl = <<>>

InitAnalyticsV1Store ==
    /\ \E e \in 0..MaxRows : expensesTbl \in TablesOf(ExpenseKinds, e)
    /\ incomesTbl = <<>>
    /\ budgetsTbl = <<>>

InitHomeStore ==
    /\ \E e \in 0..MaxRows : expensesTbl \in TablesOf(HomeExpenseKinds, e)
    /\ \E i \in 0..1 : incomesTbl \in TablesOf(HomeIncomeKinds, i)
    /\ budgetsTbl \in BudgetTables

InitTrendsStore ==
    /\ \E e \in 0..MaxTrendRows : \E i \in 0..(MaxTrendRows - e) :
         /\ expensesTbl \in TablesOf(TrendExpenseKinds, e)
         /\ incomesTbl \in TablesOf(TrendIncomeKinds, i)
    /\ budgetsTbl = <<>>

Init ==
    /\ \/ page = "analytics" /\ InitAnalyticsStore
       \/ page = "analyticsV1" /\ InitAnalyticsV1Store
       \/ page = "home" /\ InitHomeStore
       \/ page = "trends" /\ InitTrendsStore
    /\ nextId = FreshId(expensesTbl, incomesTbl, budgetsTbl)
    /\ InitAnalyticsView /\ InitAnalyticsV1View /\ InitHomeView /\ InitTrendsView
    /\ InitFormView /\ InitSettingsView /\ InitApi

Next ==
    \/ fetchAnalyticsExpenses
    \/ fetchAnalyticsIncomes
    \/ fetchAnalyticsProcess
    \/ fetchAnalyticsV1
    \/ fetchBudgetQuery
    \/ fetchBudgetDone
    \/ fetchExpensesQuery
    \/ fetchExpensesDone
    \/ fetchIncomesQuery
    \/ fetchIncomesDone
    \/ fetchTrendsStart
    \/ fetchTrendsExpenses
    \/ fetchTrendsIncomes
    \/ fetchTrendsPush
    \/ monthTurns

Spec == Init /\ [][Next]_vars

(***************************************************************************)
(* The store's writes: the row level security policies and the constraints *)
(* of the tables.  A write replies { error } and leaves a table.           *)
(***************************************************************************)
Applied(tbl) == [error |-> FALSE, tbl |-> tbl]
Rejected(tbl) == [error |-> TRUE, tbl |-> tbl]

\* .insert([data]) into public.expenses: the INSERT policy, CHECK (amount > 0)
InsertExpense(tbl, uid, data, id) ==
    IF Policy(uid, data) /\ data.amount > 0
    THEN Applied(Append(tbl, WithId(data, id)))
    ELSE Rejected(tbl)

\* .insert([data]) into public.incomes: the INSERT policy; amount has no CHECK
InsertIncome(tbl, uid, data, id) ==
    IF Policy(uid, data)
    THEN Applied(Append(tbl, WithId(data, id)))
    ELSE Rejected(tbl)

\* an update that leaves the row it targets and stores the sent row as a new one
UpdateRows_StoresCopy(tbl, uid, id, data, checked) ==
    LET targets == { k \in 1..Len(tbl) : tbl[k].id = id /\ Policy(uid, tbl[k]) }
    IN  IF targets # {} /\ ~(Policy(uid, data) /\ checked)
        THEN Rejected(tbl)
        ELSE IF targets = {} THEN Applied(tbl)
             ELSE Applied(Append(tbl, WithId(data, id + 1)))

\* .update(data).eq("id", id): the rows the UPDATE policy lets the user see
\* are replaced; the new row has to pass the policy and the table's checks
UpdateRows(tbl, uid, id, data, checked) ==
    LET targets == { k \in 1..Len(tbl) : tbl[k].id = id /\ Policy(uid, tbl[k]) }
    IN  IF targets # {} /\ ~(Policy(uid, data) /\ checked)
        THEN Rejected(tbl)
        ELSE Applied([k \in 1..Len(tbl) |->
                        IF k \in targets THEN WithId(data, id) ELSE tbl[k]])

UpdateExpense(tbl, uid, id, data) == UpdateRows(tbl, uid, id, data, data.amount > 0)

UpdateIncome(tbl, uid, id, data) == UpdateRows(tbl, uid, id, data, TRUE)

\* .delete().eq("id", id): the rows the DELETE policy lets the user see
DeleteRow(tbl, uid, id) ==
    Applied(SelectSeq(tbl, LAMBDA r : ~(r.id = id /\ Policy(uid, r))))

\* an insert into a budgets table that has no UNIQUE constraint
InsertBudget_NoUnique(tbl, uid, row, id) ==
    IF Policy(uid, row) /\ row.amount > 0
    THEN Applied(Append(tbl, [id |-> id, user_id |-> row.user_id,
                              month |-> row.month, amount |-> row.amount]))
    ELSE Rejected(tbl)

\* .insert([{ user_id, month, amount }]) into public.budgets: the INSERT policy,
\* CHECK (amount > 0), UNIQUE(user_id, month)
InsertBudget(tbl, uid, row, id) ==
    IF /\ Policy(uid, row)
       /\ row.amount > 0
       /\ ~\E k \in 1..Len(tbl) :
             tbl[k].user_id = row.user_id /\ tbl[k].month = row.month
    THEN Applied(Append(tbl, [id |-> id, user_id |-> row.user_id,
                              month |-> row.month, amount |-> row.amount]))
    ELSE Rejected(tbl)

\* an update that is filtered by the user instead of the id
UpdateBudget_AllOfUser(tbl, uid, id, amount) ==
    IF amount <= 0 THEN Rejected(tbl)
    ELSE Applied([k \in 1..Len(tbl) |->
                    IF Policy(uid, tbl[k]) THEN [tbl[k] EXCEPT !.amount = amount]
                    ELSE tbl[k]])

\* .update({ amount }).eq("id", id) on public.budgets
UpdateBudget(tbl, uid, id, amount) ==
    LET targets == { k \in 1..Len(tbl) : tbl[k].id = id /\ Policy(uid, tbl[k]) }
    IN  IF targets # {} /\ amount <= 0
        THEN Rejected(tbl)
        ELSE Applied([k \in 1..Len(tbl) |->
                        IF k \in targets THEN [tbl[k] EXCEPT !.amount = amount]
                        ELSE tbl[k]])

(***************************************************************************)
(* Settings view: handleSaveBudget, in each session of the user.           *)
(***************************************************************************)
\* what the user may have typed into the budget input
BudgetInputs == {0, 1, 2}

\* .select("id").eq("user_id", user).eq("month", currentMonth).maybeSingle():
\* the id of data, 0 when data is null
ExistingBudgetId(tbl, uid, month) ==
    LET rows == SelectSeq(RlsVisible(tbl, uid),
                          LAMBDA r : r.user_id = uid /\ r.month = month)
    IN  IF Len(rows) = 1 THEN rows[1].id ELSE 0

\* a check that lets the amount 0 pass
AmountRefused_NegativeOnly(budgetAmount) == budgetAmount < 0

\* if (budgetAmount <= 0)
AmountRefused(budgetAmount) == budgetAmount <= 0

\* handleSaveBudget up to the reply of the query for the existing row; the
\* local budgetAmount = Number(budget) is kept in svAmount
handleSaveBudget(s) ==
    /\ page = "settings"
    /\ svPc[s] = "idle"
    /\ ~loading[s]
    /\ \E user \in {NoUser, Me}, budgetAmount \in BudgetInputs :
        \/ /\ user = NoUser
           /\ loading' = [loading EXCEPT ![s] = TRUE]
           /\ UNCHANGED <<svPc, svExisting, svAmount, svToast>>
        \/ /\ user # NoUser
           /\ AmountRefused(budgetAmount)
           /\ svAmount' = [svAmount EXCEPT ![s] = budgetAmount]
           /\ svToast' = [svToast EXCEPT ![s] = "Budget must be greater than 0"]
           /\ loading' = [loading EXCEPT ![s] = FALSE]
           /\ UNCHANGED <<svPc, svExisting>>
        \/ /\ user # NoUser
           /\ ~AmountRefused(budgetAmount)
           /\ loading' = [loading EXCEPT ![s] = TRUE]
           /\ svAmount' = [svAmount EXCEPT ![s] = budgetAmount]
           /\ \E existing \in {ExistingBudgetId(budgetsTbl, user, CurMonth), 0} :
                svExisting' = [svExisting EXCEPT ![s] = existing]
           /\ svPc' = [svPc EXCEPT ![s] = "write"]
           /\ UNCHANGED svToast
    /\ UNCHANGED <<formVars, apiVars>>
    /\ UNCHANGED <<page, storeVars, analyticsVars, analyticsV1Vars, homeVars, trendsVars>>

\* handleSaveBudget from the update or the insert on
handleSaveBudgetWrite(s) ==
    /\ page = "settings"
    /\ svPc[s] = "write"
    /\ \E reply \in
          { IF svExisting[s] # 0
            THEN UpdateBudget(budgetsTbl, Me, svExisting[s], svAmount[s])
            ELSE InsertBudget(budgetsTbl, Me,
                              [user_id |-> Me, month |-> CurMonth,
                               amount |-> svAmount[s]], nextId),
            Rejected(budgetsTbl) } :
        /\ budgetsTbl' = reply.tbl
        /\ nextId' = IF Len(reply.tbl) > Len(budgetsTbl) THEN nextId + 1 ELSE nextId
        /\ svToast' = [svToast EXCEPT ![s] =
                          IF reply.error THEN "Failed to save budget"
                                         ELSE "Budget saved successfully!"]
    /\ loading' = [loading EXCEPT ![s] = FALSE]
    /\ svPc' = [svPc EXCEPT ![s] = "idle"]
    /\ UNCHANGED <<svExisting, svAmount>>
    /\ UNCHANGED <<expensesTbl, incomesTbl>>
    /\ UNCHANGED <<formVars, apiVars>>
    /\ UNCHANGED <<page, analyticsVars, analyticsV1Vars, homeVars, trendsVars>>

\* the Settings view is open in every session, on a store with budget rows
InitSettings ==
    /\ page = "settings"
    /\ expensesTbl = <<>>
    /\ incomesTbl = <<>>
    /\ budgetsTbl \in BudgetTables
    /\ nextId = FreshId(expensesTbl, incomesTbl, budgetsTbl)
    /\ InitAnalyticsView /\ InitAnalyticsV1View /\ InitHomeView /\ InitTrendsView
    /\ InitFormView /\ InitSettingsView /\ InitApi

NextSettings ==
    \/ \E s \in Sessions : handleSaveBudget(s)
    \/ \E s \in Sessions : handleSaveBudgetWrite(s)

SpecSettings == InitSettings /\ [][NextSettings]_vars

(***************************************************************************)
(* Home view: the form, and the handlers that write to the store.  An      *)
(* invocation of a handler is a record of writeCalls; the fetches the      *)
(* handlers start are records of fetchCalls (the fetches of the mount      *)
(* effect are fePc / fiPc above).                                          *)
(***************************************************************************)
MaxWrites == 1        \* invocations of the writing handlers of the Home view
MaxUserEvents == 4    \* clicks and inputs of the user on the Home view

\* what the user may type into the amount input (type="number", no min)
FormAmounts == {0, 2}

\* the categories the user picks from the Select of a tab: the first two of
\* the list the Select shows
CategoryChoices(tab) ==
    IF tab = "expenses" THEN {EXPENSE_CATEGORIES[1], EXPENSE_CATEGORIES[2]}
                        ELSE {INCOME_CATEGORIES[1], INCOME_CATEGORIES[2]}

\* <Tabs onValueChange>; the tabs are outside the modal dialog
setActiveTab(tab) ==
    /\ page = "home"
    /\ userEvents < MaxUserEvents
    /\ userEvents' = userEvents + 1
    /\ ~dialogOpen
    /\ tab # activeTab
    /\ activeTab' = tab
    /\ UNCHANGED <<dialogOpen, editingExpense, editingIncome, formData,
                   writeCalls, fetchCalls>>
    /\ UNCHANGED <<settingsVars, apiVars>>
    /\ UNCHANGED <<page, storeVars, analyticsVars, analyticsV1Vars, homeVars, trendsVars>>

\* <Dialog onOpenChange> with open = true (the "Add" button)
openDialog ==
    /\ page = "home"
    /\ userEvents < MaxUserEvents
    /\ userEvents' = userEvents + 1
    /\ ~dialogOpen
    /\ dialogOpen' = TRUE
    /\ UNCHANGED <<activeTab, editingExpense, editingIncome, formData,
                   writeCalls, fetchCalls>>
    /\ UNCHANGED <<settingsVars, apiVars>>
    /\ UNCHANGED <<page, storeVars, analyticsVars, analyticsV1Vars, homeVars, trendsVars>>

\* <Dialog onOpenChange> with open = false
closeDialog ==
    /\ page = "home"
    /\ userEvents < MaxUserEvents
    /\ userEvents' = userEvents + 1
    /\ dialogOpen
    /\ dialogOpen' = FALSE
    /\ editingExpense' = 0
    /\ editingIncome' = 0
    /\ formData' = EmptyForm(activeTab)
    /\ UNCHANGED <<activeTab, writeCalls, fetchCalls>>
    /\ UNCHANGED <<settingsVars, apiVars>>
    /\ UNCHANGED <<page, storeVars, analyticsVars, analyticsV1Vars, homeVars, trendsVars>>

\* onChange of the amount input
setFormAmount(amount) ==
    /\ page = "home"
    /\ userEvents < MaxUserEvents
    /\ userEvents' = userEvents + 1
    /\ dialogOpen
    /\ formData' = [formData EXCEPT !.amount = <<amount>>]
    /\ UNCHANGED <<dialogOpen, activeTab, editingExpense, editingIncome,
                   writeCalls, fetchCalls>>
    /\ UNCHANGED <<settingsVars, apiVars>>
    /\ UNCHANGED <<page, storeVars, analyticsVars, analyticsV1Vars, homeVars, trendsVars>>

\* onValueChange of the category Select
setFormCategory(category) ==
    /\ page = "home"
    /\ userEvents < MaxUserEvents
    /\ userEvents' = userEvents + 1
    /\ dialogOpen
    /\ category \in CategoryChoices(activeTab)
    /\ formData' = [formData EXCEPT !.category = category]
    /\ UNCHANGED <<dialogOpen, activeTab, editingExpense, editingIncome,
                   writeCalls, fetchCalls>>
    /\ UNCHANGED <<settingsVars, apiVars>>
    /\ UNCHANGED <<page, storeVars, analyticsVars, analyticsV1Vars, homeVars, trendsVars>>

\* the form filled from a row of a list
FormOf(row) ==
    [amount |-> <<row.amount>>, category |-> row.category,
     date |-> FormatDay(row.date)]

\* the edit button of the k-th row of the list of the expenses tab
handleEditExpense(k) ==
    /\ page = "home"
    /\ userEvents < MaxUserEvents
    /\ userEvents' = userEvents + 1
    /\ ~dialogOpen
    /\ activeTab = "expenses"
    /\ k \in 1..Len(expenses)
    /\ editingExpense' = expenses[k].id
    /\ formData' = FormOf(expenses[k])
    /\ dialogOpen' = TRUE
    /\ UNCHANGED <<activeTab, editingIncome, writeCalls, fetchCalls>>
    /\ UNCHANGED <<settingsVars, apiVars>>
    /\ UNCHANGED <<page, storeVars, analyticsVars, analyticsV1Vars, homeVars, trendsVars>>

\* the edit button of the k-th row of the list of the income tab
handleEditIncome(k) ==
    /\ page = "home"
    /\ userEvents < MaxUserEvents
    /\ userEvents' = userEvents + 1
    /\ ~dialogOpen
    /\ activeTab = "income"
    /\ k \in 1..Len(incomes)
    /\ editingIncome' = incomes[k].id
    /\ formData' = FormOf(incomes[k])
    /\ dialogOpen' = TRUE
    /\ UNCHANGED <<activeTab, editingExpense, writeCalls, fetchCalls>>
    /\ UNCHANGED <<settingsVars, apiVars>>
    /\ UNCHANGED <<page, storeVars, analyticsVars, analyticsV1Vars, homeVars, trendsVars>>

\* const data = { user_id, title, amount: Number(formData.amount), category, date }
SubmittedData(uid) ==
    [user_id |-> uid, amount |-> formData.amount[1],
     category |-> formData.category, date |-> DayToISOString(formData.date)]

\* an invocation of a writing handler that awaits the reply of the store
WriteCall(fn, tab, table, reply) ==
    [fn |-> fn, tab |-> tab, table |-> table, error |-> reply.error, pc |-> "await"]

\* handleSubmit up to the reply of the store: getUser, data, and the update or
\* insert on the table of the active tab (the amount input is `required`)
handleSubmit ==
    /\ page = "home"
    /\ userEvents < MaxUserEvents
    /\ userEvents' = userEvents + 1
    /\ dialogOpen
    /\ formData.amount # <<>>
    /\ Len(writeCalls) < MaxWrites
    /\ \E user \in {NoUser, Me} :
        \/ /\ user = NoUser
           /\ UNCHANGED <<storeVars, writeCalls>>
        \/ /\ user # NoUser
           /\ activeTab = "expenses"
           /\ \E reply \in
                 { IF editingExpense # 0
                   THEN UpdateExpense(expensesTbl, user, editingExpense,
                                      SubmittedData(user))
                   ELSE InsertExpense(expensesTbl, user, SubmittedData(user), nextId),
                   Rejected(expensesTbl) } :
                /\ expensesTbl' = reply.tbl
                /\ nextId' = IF Len(reply.tbl) > Len(expensesTbl)
                             THEN nextId + 1 ELSE nextId
                /\ writeCalls' = Append(writeCalls,
                                        WriteCall("handleSubmit", activeTab, "expenses", reply))
           /\ UNCHANGED <<incomesTbl, budgetsTbl>>
        \/ /\ user # NoUser
           /\ activeTab # "expenses"
           /\ \E reply \in
                 { IF editingIncome # 0
                   THEN UpdateIncome(incomesTbl, user, editingIncome,
                                     SubmittedData(user))
                   ELSE InsertIncome(incomesTbl, user, SubmittedData(user), nextId),
                   Rejected(incomesTbl) } :
                /\ incomesTbl' = reply.tbl
                /\ nextId' = IF Len(reply.tbl) > Len(incomesTbl)
                             THEN nextId + 1 ELSE nextId
                /\ writeCalls' = Append(writeCalls,
                                        WriteCall("handleSubmit", activeTab, "incomes", reply))
           /\ UNCHANGED <<expensesTbl, budgetsTbl>>
    /\ UNCHANGED <<dialogOpen, activeTab, editingExpense, editingIncome, formData,
                   fetchCalls>>
    /\ UNCHANGED <<settingsVars, apiVars>>
    /\ UNCHANGED <<page, analyticsVars, analyticsV1Vars, homeVars, trendsVars>>

\* a handler that fetches the expenses after every write
FetchAfterWrite_AlwaysExpenses(tab) == "fetchExpenses"

\* the fetch a handler starts after a write that succeeded: fetchExpenses() in
\* the branch of the expenses, fetchIncomes() in the branch of the incomes
FetchAfterWrite(tab) ==
    IF tab = "expenses" THEN "fetchExpenses" ELSE "fetchIncomes"

\* an invocation of fetchExpenses / fetchIncomes that has not run yet
FetchCall(fn) == [fn |-> fn, pc |-> "start", resp |-> NoResp]

\* a continuation of handleSubmit that closes the dialog and keeps the edit
\* targets
handleSubmitReply_KeepsTarget(k) ==
    /\ page = "home"
    /\ UNCHANGED userEvents
    /\ k \in 1..Len(writeCalls)
    /\ writeCalls[k].fn = "handleSubmit"
    /\ writeCalls[k].pc = "await"
    /\ writeCalls' = [writeCalls EXCEPT ![k].pc = "done"]
    /\ \/ /\ writeCalls[k].error
          /\ UNCHANGED <<dialogOpen, formData, fetchCalls>>
       \/ /\ ~writeCalls[k].error
          /\ fetchCalls' = Append(fetchCalls,
                                  FetchCall(FetchAfterWrite(writeCalls[k].tab)))
          /\ dialogOpen' = FALSE
          /\ formData' = EmptyForm(writeCalls[k].tab)
    /\ UNCHANGED <<activeTab, editingExpense, editingIncome>>
    /\ UNCHANGED <<settingsVars, apiVars>>
    /\ UNCHANGED <<page, storeVars, analyticsVars, analyticsV1Vars, homeVars, trendsVars>>

\* handleSubmit from the reply on: on an error the toast and return; else the
\* fetch of the written kind, and the dialog closed and the form reset with
\* the activeTab of the submitting render
handleSubmitReply(k) ==
    /\ page = "home"
    /\ UNCHANGED userEvents
    /\ k \in 1..Len(writeCalls)
    /\ writeCalls[k].fn = "handleSubmit"
    /\ writeCalls[k].pc = "await"
    /\ writeCalls' = [writeCalls EXCEPT ![k].pc = "done"]
    /\ \/ /\ writeCalls[k].error
          /\ UNCHANGED <<dialogOpen, editingExpense, editingIncome, formData,
                         fetchCalls>>
       \/ /\ ~writeCalls[k].error
          /\ fetchCalls' = Append(fetchCalls,
                                  FetchCall(FetchAfterWrite(writeCalls[k].tab)))
          /\ dialogOpen' = FALSE
          /\ editingExpense' = 0
          /\ editingIncome' = 0
          /\ formData' = EmptyForm(writeCalls[k].tab)
    /\ UNCHANGED activeTab
    /\ UNCHANGED <<settingsVars, apiVars>>
    /\ UNCHANGED <<page, storeVars, analyticsVars, analyticsV1Vars, homeVars, trendsVars>>

\* handleDeleteExpense(id) of the k-th row of the list, up to the reply
handleDeleteExpense(k) ==
    /\ page = "home"
    /\ userEvents < MaxUserEvents
    /\ userEvents' = userEvents + 1
    /\ ~dialogOpen
    /\ activeTab = "expenses"
    /\ k \in 1..Len(expenses)
    /\ Len(writeCalls) < MaxWrites
    /\ \E reply \in { DeleteRow(expensesTbl, Me, expenses[k].id),
                      Rejected(expensesTbl) } :
        /\ expensesTbl' = reply.tbl
        /\ writeCalls' = Append(writeCalls,
                                WriteCall("handleDeleteExpense", activeTab, "expenses", reply))
    /\ UNCHANGED <<incomesTbl, budgetsTbl, nextId>>
    /\ UNCHANGED <<dialogOpen, activeTab, editingExpense, editingIncome, formData,
                   fetchCalls>>
    /\ UNCHANGED <<settingsVars, apiVars>>
    /\ UNCHANGED <<page, analyticsVars, analyticsV1Vars, homeVars, trendsVars>>

\* a continuation of handleDeleteExpense that fetches whatever the reply
handleDeleteExpenseReply_AlwaysFetches(k) ==
    /\ page = "home"
    /\ UNCHANGED userEvents
    /\ k \in 1..Len(writeCalls)
    /\ writeCalls[k].fn = "handleDeleteExpense"
    /\ writeCalls[k].pc = "await"
    /\ writeCalls' = [writeCalls EXCEPT ![k].pc = "done"]
    /\ fetchCalls' = Append(fetchCalls, FetchCall(FetchAfterWrite("expenses")))
    /\ UNCHANGED <<dialogOpen, activeTab, editingExpense, editingIncome, formData>>
    /\ UNCHANGED <<settingsVars, apiVars>>
    /\ UNCHANGED <<page, storeVars, analyticsVars, analyticsV1Vars, homeVars, trendsVars>>

\* handleDeleteExpense from the reply on
handleDeleteExpenseReply(k) ==
    /\ page = "home"
    /\ UNCHANGED userEvents
    /\ k \in 1..Len(writeCalls)
    /\ writeCalls[k].fn = "handleDeleteExpense"
    /\ writeCalls[k].pc = "await"
    /\ writeCalls' = [writeCalls EXCEPT ![k].pc = "done"]
    /\ \/ /\ writeCalls[k].error
          /\ UNCHANGED fetchCalls
       \/ /\ ~writeCalls[k].error
          /\ fetchCalls' = Append(fetchCalls, FetchCall(FetchAfterWrite("expenses")))
    /\ UNCHANGED <<dialogOpen, activeTab, editingExpense, editingIncome, formData>>
    /\ UNCHANGED <<settingsVars, apiVars>>
    /\ UNCHANGED <<page, storeVars, analyticsVars, analyticsV1Vars, homeVars, trendsVars>>

\* handleDeleteIncome(id) of the k-th row of the list, up to the reply
handleDeleteIncome(k) ==
    /\ page = "home"
    /\ userEvents < MaxUserEvents
    /\ userEvents' = userEvents + 1
    /\ ~dialogOpen
    /\ activeTab = "income"
    /\ k \in 1..Len(incomes)
    /\ Len(writeCalls) < MaxWrites
    /\ \E reply \in { DeleteRow(incomesTbl, Me, incomes[k].id),
                      Rejected(incomesTbl) } :
        /\ incomesTbl' = reply.tbl
        /\ writeCalls' = Append(writeCalls,
                                WriteCall("handleDeleteIncome", activeTab, "incomes", reply))
    /\ UNCHANGED <<expensesTbl, budgetsTbl, nextId>>
    /\ UNCHANGED <<dialogOpen, activeTab, editingExpense, editingIncome, formData,
                   fetchCalls>>
    /\ UNCHANGED <<settingsVars, apiVars>>
    /\ UNCHANGED <<page, analyticsVars, analyticsV1Vars, homeVars, trendsVars>>

\* handleDeleteIncome from the reply on
handleDeleteIncomeReply(k) ==
    /\ page = "home"
    /\ UNCHANGED userEvents
    /\ k \in 1..Len(writeCalls)
    /\ writeCalls[k].fn = "handleDeleteIncome"
    /\ writeCalls[k].pc = "await"
    /\ writeCalls' = [writeCalls EXCEPT ![k].pc = "done"]
    /\ \/ /\ writeCalls[k].error
          /\ UNCHANGED fetchCalls
       \/ /\ ~writeCalls[k].error
          /\ fetchCalls' = Append(fetchCalls, FetchCall(FetchAfterWrite("income")))
    /\ UNCHANGED <<dialogOpen, activeTab, editingExpense, editingIncome, formData>>
    /\ UNCHANGED <<settingsVars, apiVars>>
    /\ UNCHANGED <<page, storeVars, analyticsVars, analyticsV1Vars, homeVars, trendsVars>>

\* fetchExpenses, started by a handler, up to the reply of the store
refetchExpensesQuery(k) ==
    /\ page = "home"
    /\ UNCHANGED userEvents
    /\ k \in 1..Len(fetchCalls)
    /\ fetchCalls[k].fn = "fetchExpenses"
    /\ fetchCalls[k].pc = "start"
    /\ \E user \in {NoUser, Me} :
        \/ /\ user = NoUser
           /\ fetchCalls' = [fetchCalls EXCEPT ![k].pc = "done"]
        \/ /\ user # NoUser
           /\ \E resp \in { OkResp(OrderByDateDesc(RangeQuery(expensesTbl, user,
                                     FirstDay(CurMonth), LastDay(CurMonth)))),
                            ErrResp } :
                fetchCalls' = [fetchCalls EXCEPT ![k].pc = "await", ![k].resp = resp]
    /\ UNCHANGED <<dialogOpen, activeTab, editingExpense, editingIncome, formData,
                   writeCalls>>
    /\ UNCHANGED <<settingsVars, apiVars>>
    /\ UNCHANGED <<page, storeVars, analyticsVars, analyticsV1Vars, homeVars, trendsVars>>

\* fetchExpenses, started by a handler, from the reply on
refetchExpensesDone(k) ==
    /\ page = "home"
    /\ UNCHANGED userEvents
    /\ k \in 1..Len(fetchCalls)
    /\ fetchCalls[k].fn = "fetchExpenses"
    /\ fetchCalls[k].pc = "await"
    /\ fetchCalls' = [fetchCalls EXCEPT ![k].pc = "done"]
    /\ \/ /\ fetchCalls[k].resp.error
          /\ UNCHANGED <<expenses, totalSpent>>
       \/ /\ ~fetchCalls[k].resp.error
          /\ expenses' = DataOrEmpty(fetchCalls[k].resp)
          /\ totalSpent' = ReduceAmounts(DataOrEmpty(fetchCalls[k].resp))
    /\ UNCHANGED <<incomes, budget, totalIncomeHome,
                   fbPc, fbResp, fePc, feResp, fiPc, fiResp>>
    /\ UNCHANGED <<dialogOpen, activeTab, editingExpense, editingIncome, formData,
                   writeCalls>>
    /\ UNCHANGED <<settingsVars, apiVars>>
    /\ UNCHANGED <<page, storeVars, analyticsVars, analyticsV1Vars, trendsVars>>

\* fetchIncomes, started by a handler, up to the reply of the store
refetchIncomesQuery(k) ==
    /\ page = "home"
    /\ UNCHANGED userEvents
    /\ k \in 1..Len(fetchCalls)
    /\ fetchCalls[k].fn = "fetchIncomes"
    /\ fetchCalls[k].pc = "start"
    /\ \E user \in {NoUser, Me} :
        \/ /\ user = NoUser
           /\ fetchCalls' = [fetchCalls EXCEPT ![k].pc = "done"]
        \/ /\ user # NoUser
           /\ \E resp \in { OkResp(OrderByDateDesc(RangeQuery(incomesTbl, user,
                                     FirstDay(CurMonth), LastDay(CurMonth)))),
                            ErrResp } :
                fetchCalls' = [fetchCalls EXCEPT ![k].pc = "await", ![k].resp = resp]
    /\ UNCHANGED <<dialogOpen, activeTab, editingExpense, editingIncome, formData,
                   writeCalls>>
    /\ UNCHANGED <<settingsVars, apiVars>>
    /\ UNCHANGED <<page, storeVars, analyticsVars, analyticsV1Vars, homeVars, trendsVars>>

\* fetchIncomes, started by a handler, from the reply on
refetchIncomesDone(k) ==
    /\ page = "home"
    /\ UNCHANGED userEvents
    /\ k \in 1..Len(fetchCalls)
    /\ fetchCalls[k].fn = "fetchIncomes"
    /\ fetchCalls[k].pc = "await"
    /\ fetchCalls' = [fetchCalls EXCEPT ![k].pc = "done"]
    /\ \/ /\ fetchCalls[k].resp.error
          /\ UNCHANGED <<incomes, totalIncomeHome>>
       \/ /\ ~fetchCalls[k].resp.error
          /\ incomes' = DataOrEmpty(fetchCalls[k].resp)
          /\ totalIncomeHome' = ReduceAmounts(DataOrEmpty(fetchCalls[k].resp))
    /\ UNCHANGED <<expenses, budget, totalSpent,
                   fbPc, fbResp, fePc, feResp, fiPc, fiResp>>
    /\ UNCHANGED <<dialogOpen, activeTab, editingExpense, editingIncome, formData,
                   writeCalls>>
    /\ UNCHANGED <<settingsVars, apiVars>>
    /\ UNCHANGED <<page, storeVars, analyticsVars, analyticsV1Vars, trendsVars>>

\* the rows of the store the form of the Home view is used on: the user's
\* rows of the current month, amount > 0 and a category of their kind
FormExpenseKinds ==
    <<[user_id |-> Me, amount |-> 1, category |-> EXPENSE_CATEGORIES[1],
       date |-> MidOf(CurMonth)]>>

FormIncomeKinds ==
    <<[user_id |-> Me, amount |-> 1, category |-> INCOME_CATEGORIES[1],
       date |-> MidOf(CurMonth)]>>

\* the Home view is open, on a store of one row per table
InitForm ==
    /\ page = "home"
    /\ expensesTbl \in TablesOf(FormExpenseKinds, 1)
    /\ incomesTbl \in TablesOf(FormIncomeKinds, 1)
    /\ budgetsTbl = <<>>
    /\ nextId = FreshId(expensesTbl, incomesTbl, budgetsTbl)
    /\ InitAnalyticsView /\ InitAnalyticsV1View /\ InitHomeView /\ InitTrendsView
    /\ InitFormView /\ InitSettingsView /\ InitApi

\* the transactions of the Home view: its two lists fetched and written (the
\* budget the view shows is not written here and its fetch is left out)
NextForm ==
    \/ fetchExpensesQuery
    \/ fetchExpensesDone
    \/ fetchIncomesQuery
    \/ fetchIncomesDone
    \/ \E tab \in {"expenses", "income"} : setActiveTab(tab)
    \/ openDialog
    \/ closeDialog
    \/ \E amount \in FormAmounts : setFormAmount(amount)
    \/ \E category \in CategoryChoices(activeTab) : setFormCategory(category)
    \/ \E k \in 1..Len(expenses) : handleEditExpense(k)
    \/ \E k \in 1..Len(incomes) : handleEditIncome(k)
    \/ handleSubmit
    \/ \E k \in 1..Len(writeCalls) : handleSubmitReply(k)
    \/ \E k \in 1..Len(expenses) : handleDeleteExpense(k)
    \/ \E k \in 1..Len(writeCalls) : handleDeleteExpenseReply(k)
    \/ \E k \in 1..Len(incomes) : handleDeleteIncome(k)
    \/ \E k \in 1..Len(writeCalls) : handleDeleteIncomeReply(k)
    \/ \E k \in 1..Len(fetchCalls) : refetchExpensesQuery(k)
    \/ \E k \in 1..Len(fetchCalls) : refetchExpensesDone(k)
    \/ \E k \in 1..Len(fetchCalls) : refetchIncomesQuery(k)
    \/ \E k \in 1..Len(fetchCalls) : refetchIncomesDone(k)

SpecForm == InitForm /\ [][NextForm]_vars

(***************************************************************************)
(* The store's API, used by a client that runs no view: any signed-in user *)
(* may send any request; the policies decide what it does.                 *)
(***************************************************************************)
MaxApiRequests == 2   \* requests the client sends

ApiUsers == {Me, Other}
TableNames == {"expenses", "incomes", "budgets"}

TableNamed(t) ==
    CASE t = "expenses" -> expensesTbl
      [] t = "incomes" -> incomesTbl
      [] t = "budgets" -> budgetsTbl

IdsOf(tbl) == { tbl[k].id : k \in 1..Len(tbl) }

\* the table t is left as the reply of a write says
StoreBecomes(t, reply) ==
    /\ expensesTbl' = IF t = "expenses" THEN reply.tbl ELSE expensesTbl
    /\ incomesTbl' = IF t = "incomes" THEN reply.tbl ELSE incomesTbl
    /\ budgetsTbl' = IF t = "budgets" THEN reply.tbl ELSE budgetsTbl
    /\ nextId' = IF Len(reply.tbl) > Len(TableNamed(t)) THEN nextId + 1 ELSE nextId

\* the row a request sends, with the owner it names
SentRow(t, owner, amount) ==
    IF t = "budgets"
    THEN [user_id |-> owner, month |-> CurMonth - 1, amount |-> amount]
    ELSE [user_id |-> owner, amount |-> amount,
          category |-> IF t = "expenses" THEN EXPENSE_CATEGORIES[1]
                                         ELSE INCOME_CATEGORIES[1],
          date |-> MidOf(CurMonth)]

\* .from(t).select("*")
apiSelect(uid, t) ==
    /\ page = "none"
    /\ apiCount < MaxApiRequests
    /\ apiCount' = apiCount + 1
    /\ apiRequest' = [user |-> uid, op |-> "select", table |-> t, id |-> 0]
    /\ apiReply' = RlsVisible(TableNamed(t), uid)
    /\ UNCHANGED <<formVars, settingsVars>>
    /\ UNCHANGED <<page, storeVars, analyticsVars, analyticsV1Vars, homeVars, trendsVars>>

\* .from(t).insert([row]), the row naming any owner
apiInsert(uid, t, owner) ==
    /\ page = "none"
    /\ apiCount < MaxApiRequests
    /\ apiCount' = apiCount + 1
    /\ apiRequest' = [user |-> uid, op |-> "insert", table |-> t, id |-> nextId]
    /\ apiReply' = <<>>
    /\ StoreBecomes(t,
          CASE t = "expenses" ->
                 InsertExpense(expensesTbl, uid, SentRow(t, owner, 1), nextId)
            [] t = "incomes" ->
                 InsertIncome(incomesTbl, uid, SentRow(t, owner, 1), nextId)
            [] t = "budgets" ->
                 InsertBudget(budgetsTbl, uid, SentRow(t, owner, 1), nextId))
    /\ UNCHANGED <<formVars, settingsVars>>
    /\ UNCHANGED <<page, analyticsVars, analyticsV1Vars, homeVars, trendsVars>>

\* .from(t).update(row).eq("id", id), the row naming any owner (a budget is
\* given a new amount)
apiUpdate(uid, t, id, owner) ==
    /\ page = "none"
    /\ apiCount < MaxApiRequests
    /\ id \in IdsOf(TableNamed(t))
    /\ apiCount' = apiCount + 1
    /\ apiRequest' = [user |-> uid, op |-> "update", table |-> t, id |-> id]
    /\ apiReply' = <<>>
    /\ StoreBecomes(t,
          CASE t = "expenses" ->
                 UpdateExpense(expensesTbl, uid, id, SentRow(t, owner, 2))
            [] t = "incomes" ->
                 UpdateIncome(incomesTbl, uid, id, SentRow(t, owner, 2))
            [] t = "budgets" ->
                 UpdateBudget(budgetsTbl, uid, id, 2))
    /\ UNCHANGED <<formVars, settingsVars>>
    /\ UNCHANGED <<page, analyticsVars, analyticsV1Vars, homeVars, trendsVars>>

\* .from(t).delete().eq("id", id)
apiDelete(uid, t, id) ==
    /\ page = "none"
    /\ apiCount < MaxApiRequests
    /\ id \in IdsOf(TableNamed(t))
    /\ apiCount' = apiCount + 1
    /\ apiRequest' = [user |-> uid, op |-> "delete", table |-> t, id |-> id]
    /\ apiReply' = <<>>
    /\ StoreBecomes(t, DeleteRow(TableNamed(t), uid, id))
    /\ UNCHANGED <<formVars, settingsVars>>
    /\ UNCHANGED <<page, analyticsVars, analyticsV1Vars, homeVars, trendsVars>>

\* a store in which every table holds a row of each of two users
InitStore ==
    /\ page = "none"
    /\ expensesTbl = <<WithId(SentRow("expenses", Me, 1), 1),
                       WithId(SentRow("expenses", Other, 1), 2)>>
    /\ incomesTbl = <<WithId(SentRow("incomes", Me, 1), 1),
                      WithId(SentRow("incomes", Other, 1), 2)>>
    /\ budgetsTbl = <<[id |-> 1, user_id |-> Me, month |-> CurMonth, amount |-> 1],
                      [id |-> 2, user_id |-> Other, month |-> CurMonth, amount |-> 1]>>
    /\ nextId = FreshId(expensesTbl, incomesTbl, budgetsTbl)
    /\ InitAnalyticsView /\ InitAnalyticsV1View /\ InitHomeView /\ InitTrendsView
    /\ InitFormView /\ InitSettingsView /\ InitApi

NextStore ==
    \/ \E uid \in ApiUsers, t \in TableNames : apiSelect(uid, t)
    \/ \E uid \in ApiUsers, t \in TableNames, owner \in ApiUsers :
          apiInsert(uid, t, owner)
    \/ \E uid \in ApiUsers, t \in TableNames, id \in 1..nextId, owner \in ApiUsers :
          apiUpdate(uid, t, id, owner)
    \/ \E uid \in ApiUsers, t \in TableNames, id \in 1..nextId : apiDelete(uid, t, id)

SpecStore == InitStore /\ [][NextStore]_vars

(***************************************************************************)
(* Reference definitions the properties are stated with.                   *)
(***************************************************************************)
\* the sum of the amounts of a list of transactions
RECURSIVE SumOf(_)
SumOf(list) == IF list = <<>> THEN 0 ELSE Head(list).amount + SumOf(Tail(list))

\* the sum of the amounts of the entries of a category breakdown
RECURSIVE SumOfValues(_)
SumOfValues(chart) ==
    IF chart = <<>> THEN 0 ELSE Head(chart).value + SumOfValues(Tail(chart))

\* the sum of the percentages of a category breakdown, in tenths
RECURSIVE SumOfTenths(_)
SumOfTenths(chart) ==
    IF chart = <<>> THEN 0
    ELSE Head(chart).percentage.tenths + SumOfTenths(Tail(chart))

\* fetchAnalytics has run its two "Process" blocks
AnalyticsProcessed ==
    /\ page = "analytics" /\ anPc = "done"
    /\ ~anExpenses.error /\ ~anIncomes.error
    /\ ~anExpenses.isNull /\ ~anIncomes.isNull

\* fetchAnalytics of the expenses-only revision has computed its figures
AnalyticsV1Processed ==
    page = "analyticsV1" /\ v1Pc = "done" /\ ~v1Expenses.error /\ ~v1Expenses.isNull

\* fetchExpenses / fetchIncomes of Home have stored a reply
HomeExpensesFetched == fePc = "done" /\ ~feResp.error /\ ~feResp.isNull
HomeIncomesFetched == fiPc = "done" /\ ~fiResp.error /\ ~fiResp.isNull

(***************************************************************************)
(* C1                                                                      *)
(***************************************************************************)
ZeroTotalZeroPercent(chart, total) ==
    \A k \in 1..Len(chart) :
        /\ chart[k].percentage.finite
        /\ total = 0 => chart[k].percentage.tenths = 0

\* C1: whenever the total of a fetched list is 0, every entry of its category
\* breakdown has percentage 0, and no entry of any breakdown has a percentage
\* that is not a finite number (NaN, Infinity).
C1_ZeroTotalGivesZeroPercentages ==
    /\ ZeroTotalZeroPercent(expenseCategoryData, totalExpenses)
    /\ ZeroTotalZeroPercent(incomeCategoryData, totalIncome)
    /\ ZeroTotalZeroPercent(categoryData, v1TotalExpenses)

\* a breakdown with entries whose list sums to 0 has been computed
C1_Witness ==
    /\ AnalyticsProcessed
    /\ Len(incomeCategoryData) > 0
    /\ totalIncome = 0

(***************************************************************************)
(* C2                                                                      *)
(***************************************************************************)
NoBudgetRowThisMonth ==
    \A k \in 1..Len(budgetsTbl) :
        ~(budgetsTbl[k].user_id = Me /\ budgetsTbl[k].month = CurMonth)

\* C2: budgetPercentage is 0 when the budget is <= 0 or the store has no budget
\* row of the user for the current month, and is 100 * totalSpent / budget
\* otherwise.
C2_PercentageUsed ==
    /\ budgetPercentage.den > 0
    /\ budget <= 0 => budgetPercentage.num = 0
    /\ NoBudgetRowThisMonth => budgetPercentage.num = 0
    /\ budget > 0 /\ ~NoBudgetRowThisMonth =>
          budgetPercentage.num * budget = 100 * totalSpent * budgetPercentage.den

\* both the budget and the expenses have been fetched and neither is 0
C2_Witness ==
    /\ fbPc = "done" /\ HomeExpensesFetched
    /\ budget > 0 /\ totalSpent > 0

(***************************************************************************)
(* C3                                                                      *)
(***************************************************************************)
\* C3: a monthly query of fetchTrends that failed is not shown as a total of 0:
\* when the series is displayed and the expenses (incomes) query of its last
\* month failed, the expenses (income) total of that entry is not 0.
C3_FailedQueryNotShownAsZero ==
    (page = "trends" /\ trPc = "done" /\ monthlyData # <<>>) =>
        /\ trExpenses.error => monthlyData[Len(monthlyData)].expenses # 0
        /\ trIncomes.error => monthlyData[Len(monthlyData)].income # 0

(***************************************************************************)
(* C4                                                                      *)
(***************************************************************************)
\* C4: a step taken while a failed reply awaits its handler changes none of the
\* figures of that view: the six Analytics figures when the expenses or the
\* incomes query failed, expenses and totalSpent (incomes and totalIncome) of
\* Home when fetchExpenses (fetchIncomes) failed.
C4_FailedFetchKeepsFigures ==
    [][ /\ (anPc = "process" /\ (anExpenses.error \/ anIncomes.error)) =>
              UNCHANGED <<totalExpenses, totalIncome, transactionCount,
                          avgTransaction, expenseCategoryData, incomeCategoryData>>
        /\ (fePc = "await" /\ feResp.error) => UNCHANGED <<expenses, totalSpent>>
        /\ (fiPc = "await" /\ fiResp.error) => UNCHANGED <<incomes, totalIncomeHome>>
      ]_vars

\* fetchAnalytics has returned after an incomes query that failed, although
\* the expenses query had delivered rows
C4_Witness ==
    /\ page = "analytics" /\ anPc = "done"
    /\ ~anExpenses.error /\ Len(anExpenses.data) > 0
    /\ anIncomes.error

(***************************************************************************)
(* C5                                                                      *)
(***************************************************************************)
\* C5: after a successful fetch the total shown for a list is the sum of the
\* amounts of the fetched transactions, and 0 when the fetched list is empty
\* (Analytics, its expenses-only revision, and Home).
C5_TotalIsSumOfFetched ==
    /\ AnalyticsProcessed =>
          /\ totalExpenses = SumOf(anExpenses.data)
          /\ totalIncome = SumOf(anIncomes.data)
          /\ anExpenses.data = <<>> => totalExpenses = 0
          /\ anIncomes.data = <<>> => totalIncome = 0
    /\ AnalyticsV1Processed =>
          /\ v1TotalExpenses = SumOf(v1Expenses.data)
          /\ v1Expenses.data = <<>> => v1TotalExpenses = 0
    /\ HomeExpensesFetched =>
          /\ expenses = feResp.data
          /\ totalSpent = SumOf(feResp.data)
          /\ feResp.data = <<>> => totalSpent = 0
    /\ HomeIncomesFetched =>
          /\ incomes = fiResp.data
          /\ totalIncomeHome = SumOf(fiResp.data)
          /\ fiResp.data = <<>> => totalIncomeHome = 0

\* Home shows the total of a fetched list of several expenses
C5_Witness ==
    /\ page = "home" /\ HomeExpensesFetched
    /\ Len(expenses) >= 2
    /\ totalSpent > expenses[1].amount

(***************************************************************************)
(* C6                                                                      *)
(***************************************************************************)
\* C6 as stated: of the figures computed for the month's expenses, count is the
\* number of transactions of the totalled list and average is total / count
\* when count > 0 and 0 when count = 0.
C6_CountAndAverageOfExpenses ==
    AnalyticsProcessed =>
        /\ transactionCount = Len(anExpenses.data)
        /\ avgTransaction.den > 0
        /\ transactionCount > 0 =>
              avgTransaction.num * transactionCount = totalExpenses * avgTransaction.den
        /\ transactionCount = 0 => avgTransaction.num = 0

\* C6 amended: transactionCount is the number of fetched expenses plus the
\* number of fetched incomes (the number of expenses in the expenses-only
\* revision); average is total / (number of expenses) when there is an expense
\* and 0 when there is none.
C6_CountOfBothAverageOfExpenses ==
    /\ AnalyticsProcessed =>
          /\ transactionCount = Len(anExpenses.data) + Len(anIncomes.data)
          /\ avgTransaction.den > 0
          /\ Len(anExpenses.data) > 0 =>
                avgTransaction.num * Len(anExpenses.data)
                    = totalExpenses * avgTransaction.den
          /\ Len(anExpenses.data) = 0 => avgTransaction.num = 0
    /\ AnalyticsV1Processed =>
          /\ v1TransactionCount = Len(v1Expenses.data)
          /\ v1AvgTransaction.den > 0
          /\ v1TransactionCount > 0 =>
                v1AvgTransaction.num * v1TransactionCount
                    = v1TotalExpenses * v1AvgTransaction.den
          /\ v1TransactionCount = 0 => v1AvgTransaction.num = 0

\* the figures of a month that has expenses and incomes have been computed
C6_Witness ==
    /\ AnalyticsProcessed
    /\ Len(anExpenses.data) > 0
    /\ Len(anIncomes.data) > 0
    /\ transactionCount > Len(anExpenses.data)

(***************************************************************************)
(* C7                                                                      *)
(***************************************************************************)
\* chart is the breakdown of list: one entry per category label of the list,
\* each with the sum of the amounts of the transactions of that label
IsBreakdownOf(chart, list) ==
    /\ { chart[k].name : k \in 1..Len(chart) }
          = { list[i].category : i \in 1..Len(list) }
    /\ \A j, k \in 1..Len(chart) : chart[j].name = chart[k].name => j = k
    /\ \A k \in 1..Len(chart) :
          chart[k].value
             = SumOf(SelectSeq(list, LAMBDA r : r.category = chart[k].name))
    /\ SumOfValues(chart) = SumOf(list)

\* C7: the category breakdown of a fetched list has exactly one entry per
\* distinct category label of the list, each entry's amount is the sum of the
\* amounts of the transactions of that label, and the entry amounts add up to
\* the total shown for the list.
C7_BreakdownPartitionsTheList ==
    /\ AnalyticsProcessed =>
          /\ IsBreakdownOf(expenseCategoryData, anExpenses.data)
          /\ SumOfValues(expenseCategoryData) = totalExpenses
          /\ IsBreakdownOf(incomeCategoryData, anIncomes.data)
          /\ SumOfValues(incomeCategoryData) = totalIncome
    /\ AnalyticsV1Processed =>
          /\ IsBreakdownOf(categoryData, v1Expenses.data)
          /\ SumOfValues(categoryData) = v1TotalExpenses

\* a breakdown of several categories, one of them with several transactions
C7_Witness ==
    /\ AnalyticsProcessed
    /\ Len(expenseCategoryData) >= 2
    /\ Len(anExpenses.data) > Len(expenseCategoryData)

(***************************************************************************)
(* C8                                                                      *)
(***************************************************************************)
\* the percentages of chart, in tenths, sum to 1000 up to half a tenth per entry
SumsToHundred(chart) ==
    /\ \A k \in 1..Len(chart) : chart[k].percentage.finite
    /\ 2 * Abs(SumOfTenths(chart) - 1000) <= Len(chart)

\* C8: when the total of a list is > 0, the percentages of its category
\* breakdown, each rounded to one decimal, sum to 100 up to 0.05 per entry.
C8_PercentagesSumToHundred ==
    /\ (AnalyticsProcessed /\ totalExpenses > 0) => SumsToHundred(expenseCategoryData)
    /\ (AnalyticsProcessed /\ totalIncome > 0) => SumsToHundred(incomeCategoryData)
    /\ (AnalyticsV1Processed /\ v1TotalExpenses > 0) => SumsToHundred(categoryData)

\* a breakdown whose rounded percentages do not sum to exactly 100
C8_Witness ==
    /\ AnalyticsProcessed
    /\ totalExpenses > 0
    /\ SumOfTenths(expenseCategoryData) # 1000

(***************************************************************************)
(* C9                                                                      *)
(***************************************************************************)
\* C9: remaining is the budget minus totalSpent, not clamped: it is negative
\* exactly when totalSpent exceeds the budget.
C9_RemainingIsBudgetMinusSpent ==
    /\ remaining + totalSpent = budget
    /\ remaining < 0 <=> totalSpent > budget

\* more was spent than the fetched budget allows
C9_Witness ==
    /\ fbPc = "done" /\ HomeExpensesFetched
    /\ budget > 0
    /\ totalSpent > budget
    /\ remaining < 0

(***************************************************************************)
(* C10                                                                     *)
(***************************************************************************)
\* percentageUsed >= k for a cutoff k > 0, where percentageUsed is 0 for a
\* budget <= 0 and 100 * totalSpent / budget otherwise
PercentageUsedAtLeast(k) == budget > 0 /\ 100 * totalSpent >= k * budget

\* C10: the warning "Approaching budget limit" is shown iff
\* 90 <= percentageUsed < 100, "Budget exceeded!" iff percentageUsed >= 100,
\* and no alert when percentageUsed < 90; the card shows at most one of them.
C10_AlertCutoffs ==
    /\ budgetAlert = "Approaching budget limit"
          <=> (PercentageUsedAtLeast(90) /\ ~PercentageUsedAtLeast(100))
    /\ budgetAlert = "Budget exceeded!" <=> PercentageUsedAtLeast(100)
    /\ budgetAlert = "none" <=> ~PercentageUsedAtLeast(90)

\* exactly 90 percent of the budget is spent and the warning is shown
C10_Witness ==
    /\ fbPc = "done" /\ HomeExpensesFetched
    /\ budget > 0
    /\ 100 * totalSpent = 90 * budget
    /\ budgetAlert = "Approaching budget limit"

(***************************************************************************)
(* C11                                                                     *)
(***************************************************************************)
\* the entries of a series are consecutive calendar months, oldest first
ConsecutiveMonths(series) ==
    \A k \in 1..(Len(series) - 1) :
        series[k + 1].month = MonthLabel(series[k].month + 1)

\* C11: the series fetchTrends displays has exactly 6 entries, of 6 consecutive
\* calendar months, oldest first, none skipped or repeated, and its last entry
\* is the month of the current date (a month the clock showed while the view
\* was open), however long the monthly queries take.
C11_SixConsecutiveMonths ==
    (page = "trends" /\ trPc = "done" /\ monthlyData # <<>>) =>
        /\ Len(monthlyData) = 6
        /\ ConsecutiveMonths(monthlyData)
        /\ \E passed \in 0..clock :
              monthlyData[6].month = MonthLabel(Now(passed))

(***************************************************************************)
(* C12                                                                     *)
(***************************************************************************)
\* C12: net is the income total minus the expense total of the same period,
\* each total being the sum of that period's fetched records: in every entry
\* of the Trends series (the entry just pushed is computed from the two
\* replies of its iteration), in the Analytics overview and in the Home
\* overview.
C12_NetIsIncomeMinusExpenses ==
    /\ \A k \in 1..Len(trMonths) :
          trMonths[k].net = trMonths[k].income - trMonths[k].expenses
    /\ \A k \in 1..Len(monthlyData) :
          monthlyData[k].net = monthlyData[k].income - monthlyData[k].expenses
    /\ (trPc \in {"expenses", "done"} /\ trMonths # <<>>) =>
          /\ trMonths[Len(trMonths)].expenses = SumOf(DataOrEmpty(trExpenses))
          /\ trMonths[Len(trMonths)].income = SumOf(DataOrEmpty(trIncomes))
    /\ AnalyticsProcessed =>
          anNetBalance = SumOf(anIncomes.data) - SumOf(anExpenses.data)
    /\ (HomeExpensesFetched /\ HomeIncomesFetched) =>
          netBalance = SumOf(fiResp.data) - SumOf(feResp.data)

\* Home shows a negative net balance of a month with income and expenses
C12_Witness ==
    /\ page = "home" /\ HomeExpensesFetched /\ HomeIncomesFetched
    /\ totalIncomeHome > 0 /\ totalSpent > totalIncomeHome
    /\ netBalance < 0

(***************************************************************************)
(* C17                                                                     *)
(***************************************************************************)
\* the rows of a table that belong to a user and are dated in a month, from
\* the first instant of its first day to the last instant of its last day
MonthRows(tbl, uid, m) ==
    SelectSeq(tbl, LAMBDA r : r.user_id = uid /\ r.date.month = m)

SameRows(a, b) ==
    { a[k] : k \in 1..Len(a) } = { b[k] : k \in 1..Len(b) }

\* C17: the record set fetched for the current month holds every transaction
\* of the user and kind dated anywhere in that month, first instant of the
\* first day to last instant of the last day, and no other transaction
\* (fetchAnalytics, and fetchExpenses / fetchIncomes of Home; the store is not
\* written to while these views are open).
C17_WholeMonthIsFetched ==
    /\ AnalyticsProcessed =>
          /\ SameRows(anExpenses.data, MonthRows(expensesTbl, Me, CurMonth))
          /\ SameRows(anIncomes.data, MonthRows(incomesTbl, Me, CurMonth))
    /\ (page = "home" /\ HomeExpensesFetched) =>
          SameRows(feResp.data, MonthRows(expensesTbl, Me, CurMonth))
    /\ (page = "home" /\ HomeIncomesFetched) =>
          SameRows(fiResp.data, MonthRows(incomesTbl, Me, CurMonth))

(***************************************************************************)
(* C13                                                                     *)
(***************************************************************************)
\* the Settings view under the scheduling of the event loop: the continuation
\* of an invocation that awaits the store runs once the reply is there (a save
\* is started by the user and is under no obligation)
SpecSettingsFair ==
    SpecSettings /\ \A s \in Sessions : WF_vars(handleSaveBudgetWrite(s))

\* the rows of a budgets table of one owner and month
BudgetRows(tbl, uid, month) ==
    SelectSeq(tbl, LAMBDA r : r.user_id = uid /\ r.month = month)

\* C13: the store never holds two budget rows of the same owner and month,
\* whatever the interleaving of the handleSaveBudget invocations of the
\* sessions.
C13_OneBudgetPerOwnerAndMonth ==
    \A j, k \in 1..Len(budgetsTbl) :
        (budgetsTbl[j].user_id = budgetsTbl[k].user_id
            /\ budgetsTbl[j].month = budgetsTbl[k].month) => j = k

\* two saves both found no row; one has inserted its row and the other's
\* insert has failed
C13_Witness ==
    /\ page = "settings"
    /\ \E s, t \in Sessions :
          /\ s # t
          /\ svPc[s] = "idle" /\ svPc[t] = "idle"
          /\ svExisting[s] = 0 /\ svExisting[t] = 0
          /\ svToast[s] = "Budget saved successfully!"
          /\ svToast[t] = "Failed to save budget"
    /\ Len(BudgetRows(budgetsTbl, Me, CurMonth)) = 1

(***************************************************************************)
(* C14                                                                     *)
(***************************************************************************)
\* the rows of a budgets table of the other owners and months
OtherBudgetRows(tbl, uid, month) ==
    SelectSeq(tbl, LAMBDA r : ~(r.user_id = uid /\ r.month = month))

\* the step in which the save of session s reports success
SaveSucceeds(s) ==
    /\ svPc[s] = "write"
    /\ svPc'[s] = "idle"
    /\ svToast'[s] = "Budget saved successfully!"

\* C14: a handleSaveBudget that reports success leaves exactly one budget row
\* of the user and the current month, holding the submitted amount: a new row
\* when there was none, the row there was (same id) otherwise; the budget rows
\* of every other user and month are as they were.
C14_SaveIsAnUpsert ==
    [][ \A s \in Sessions : SaveSucceeds(s) =>
          LET before == BudgetRows(budgetsTbl, Me, CurMonth)
              after == BudgetRows(budgetsTbl', Me, CurMonth)
          IN  /\ svAmount[s] > 0
              /\ Len(after) = 1
              /\ after[1].amount = svAmount[s]
              /\ before = <<>> => Len(budgetsTbl') = Len(budgetsTbl) + 1
              /\ before # <<>> =>
                    /\ Len(budgetsTbl') = Len(budgetsTbl)
                    /\ after[1].id = before[1].id
              /\ OtherBudgetRows(budgetsTbl', Me, CurMonth)
                    = OtherBudgetRows(budgetsTbl, Me, CurMonth)
      ]_vars

\* a save has updated the user's row of the current month in place, in a
\* store that holds budget rows of another user and of another month
C14_Witness ==
    /\ page = "settings"
    /\ \E s \in Sessions :
          /\ svPc[s] = "idle"
          /\ svToast[s] = "Budget saved successfully!"
          /\ svExisting[s] # 0
          /\ Len(BudgetRows(budgetsTbl, Me, CurMonth)) = 1
          /\ BudgetRows(budgetsTbl, Me, CurMonth)[1].amount = svAmount[s]
          /\ BudgetRows(budgetsTbl, Me, CurMonth)[1].id = svExisting[s]
    /\ OtherBudgetRows(budgetsTbl, Me, CurMonth) # <<>>

(***************************************************************************)
(* C15                                                                     *)
(***************************************************************************)
\* C15: every expense and every income the store holds has amount > 0,
\* whatever the form of the Home view has submitted.
C15_AmountsPositive ==
    /\ \A k \in 1..Len(expensesTbl) : expensesTbl[k].amount > 0
    /\ \A k \in 1..Len(incomesTbl) : incomesTbl[k].amount > 0

(***************************************************************************)
(* C16                                                                     *)
(***************************************************************************)
CategoriesOf(list) == { list[k] : k \in 1..Len(list) }

\* C16: every stored expense has a category of EXPENSE_CATEGORIES and every
\* stored income a category of INCOME_CATEGORIES, after any sequence of tab
\* switches, openings and closings of the dialog, edits and submits.
C16_CategoryOfOwnKind ==
    /\ \A k \in 1..Len(expensesTbl) :
          expensesTbl[k].category \in CategoriesOf(EXPENSE_CATEGORIES)
    /\ \A k \in 1..Len(incomesTbl) :
          incomesTbl[k].category \in CategoriesOf(INCOME_CATEGORIES)

(***************************************************************************)
(* C19                                                                     *)
(***************************************************************************)
\* the replies an invocation of fetchExpenses (fetchIncomes) is waiting to
\* hand to its continuation
AwaitedReplies(fn, mountPc, mountResp) ==
    (IF mountPc = "await" THEN {mountResp} ELSE {})
    \cup { fetchCalls[k].resp :
             k \in { j \in 1..Len(fetchCalls) :
                       fetchCalls[j].fn = fn /\ fetchCalls[j].pc = "await" } }

\* C19: the step in which a handler of the Home view learns that its write
\* (create, update or delete) succeeded starts a fetch of the current month of
\* the table it wrote to, expenses or incomes; and a step changes a displayed
\* list or its total only by replacing both with the reply of a fetch of that
\* list and the sum of that reply.
C19_WriteRefetchesListReplaced ==
    [][ /\ \A k \in 1..Len(writeCalls) :
              (/\ writeCalls[k].pc = "await"
               /\ writeCalls'[k].pc = "done"
               /\ ~writeCalls[k].error) =>
                  /\ Len(fetchCalls') = Len(fetchCalls) + 1
                  /\ fetchCalls'[Len(fetchCalls')].pc = "start"
                  /\ fetchCalls'[Len(fetchCalls')].fn =
                        (IF writeCalls[k].table = "expenses"
                         THEN "fetchExpenses" ELSE "fetchIncomes")
        /\ (expenses' # expenses \/ totalSpent' # totalSpent) =>
              \E resp \in AwaitedReplies("fetchExpenses", fePc, feResp) :
                  /\ ~resp.error
                  /\ expenses' = DataOrEmpty(resp)
                  /\ totalSpent' = SumOf(expenses')
        /\ (incomes' # incomes \/ totalIncomeHome' # totalIncomeHome) =>
              \E resp \in AwaitedReplies("fetchIncomes", fiPc, fiResp) :
                  /\ ~resp.error
                  /\ incomes' = DataOrEmpty(resp)
                  /\ totalIncomeHome' = SumOf(incomes')
      ]_vars

\* the only expense has been deleted, and the fetch handleDeleteExpense
\* started has replaced the list by the empty reply
C19_Witness ==
    /\ page = "home"
    /\ \E k \in 1..Len(writeCalls) :
          /\ writeCalls[k].fn = "handleDeleteExpense"
          /\ writeCalls[k].pc = "done"
          /\ ~writeCalls[k].error
    /\ \E j \in 1..Len(fetchCalls) :
          /\ fetchCalls[j].fn = "fetchExpenses"
          /\ fetchCalls[j].pc = "done"
          /\ ~fetchCalls[j].resp.error /\ ~fetchCalls[j].resp.isNull
          /\ fetchCalls[j].resp.data = <<>>
    /\ HomeExpensesFetched /\ feResp.data # <<>>
    /\ expenses = <<>> /\ totalSpent = 0
    /\ expensesTbl = <<>>

(***************************************************************************)
(* C20                                                                     *)
(***************************************************************************)
\* every fetch of the expenses the Home view has started has completed with
\* rows, and every writing handler has returned
HomeQuiescent ==
    /\ page = "home"
    /\ HomeExpensesFetched
    /\ \A k \in 1..Len(writeCalls) : writeCalls[k].pc = "done"
    /\ \A k \in 1..Len(fetchCalls) :
          /\ fetchCalls[k].pc = "done"
          /\ ~fetchCalls[k].resp.error /\ ~fetchCalls[k].resp.isNull

\* C20: once every fetch the Home view started has completed without error
\* and every write has returned, the displayed expenses are what the query of
\* the current month returns from the store now, and totalSpent is their sum.
C20_NoStaleList ==
    HomeQuiescent =>
        /\ expenses = OrderByDateDesc(RangeQuery(expensesTbl, Me,
                                      FirstDay(CurMonth), LastDay(CurMonth)))
        /\ totalSpent = SumOf(expenses)

(***************************************************************************)
(* C18                                                                     *)
(***************************************************************************)
\* the rows of a table that are owned by other users than uid
RowsOfOthers(tbl, uid) == SelectSeq(tbl, LAMBDA r : r.user_id # uid)

\* C18: a request of a user, whatever its table and operation, returns no row
\* of another user and leaves the rows of the other users as they were: none
\* is created, modified or removed.
C18_OnlyOwnRows ==
    [][ apiCount' # apiCount =>
          /\ \A k \in 1..Len(apiReply') : apiReply'[k].user_id = apiRequest'.user
          /\ RowsOfOthers(expensesTbl', apiRequest'.user)
                = RowsOfOthers(expensesTbl, apiRequest'.user)
          /\ RowsOfOthers(incomesTbl', apiRequest'.user)
                = RowsOfOthers(incomesTbl, apiRequest'.user)
          /\ RowsOfOthers(budgetsTbl', apiRequest'.user)
                = RowsOfOthers(budgetsTbl, apiRequest'.user)
      ]_vars

\* a user has sent a delete for a row of another user, and the row is there
C18_Witness ==
    /\ page = "none"
    /\ apiRequest.op = "delete"
    /\ apiRequest.table = "expenses"
    /\ \E k \in 1..Len(expensesTbl) :
          /\ expensesTbl[k].id = apiRequest.id
          /\ expensesTbl[k].user_id # apiRequest.user

(***************************************************************************)
(* C21                                                                     *)
(***************************************************************************)
\* the three fetches the Home view starts when it is mounted have completed
HomeFetchesDone == fbPc = "done" /\ fePc = "done" /\ fiPc = "done"

\* the figures of the Home view that the replies of its three fetches determine:
\* an error-free reply gives its figure, a failed or missing one the initial 0
HomeFiguresOfReplies ==
    LET b == IF fbResp.error THEN 0 ELSE BudgetOf(fbResp)
        s == IF feResp.error THEN 0 ELSE ReduceAmounts(DataOrEmpty(feResp))
        i == IF fiResp.error THEN 0 ELSE ReduceAmounts(DataOrEmpty(fiResp))
    IN  [budget |-> b, totalSpent |-> s, totalIncome |-> i,
         remaining |-> b - s, netBalance |-> i - s]

\* the figures of the Analytics view
AnalyticsFigures ==
    <<totalExpenses, totalIncome, avgTransaction, expenseCategoryData,
      incomeCategoryData, transactionCount>>

\* C21: against an unchanged store the figures a view ends up displaying do not
\* depend on the order in which its fetches complete.  On Home, once fetchBudget,
\* fetchExpenses and fetchIncomes have completed, in whatever order their queries
\* and continuations ran, budget, totalSpent, totalIncome, remaining and the net
\* balance are the figures their three replies determine.  On Analytics the
\* figures are only assigned when the expense and the income query have both
\* returned.
C21_FiguresIndependentOfCompletionOrder ==
    /\ (page = "home" /\ HomeFetchesDone) =>
          [budget |-> budget, totalSpent |-> totalSpent,
           totalIncome |-> totalIncomeHome, remaining |-> remaining,
           netBalance |-> netBalance] = HomeFiguresOfReplies
    /\ (page = "analytics" /\ (anPc = "process" \/ AnalyticsFigures # <<0, 0, Frac(0, 1), <<>>, <<>>, 0>>)) =>
          anExpenses # NoResp /\ anIncomes # NoResp

\* the Home view has completed its three fetches, the expenses last or not, with
\* a budget, expenses and an income that all differ from the initial figures
C21_Witness ==
    /\ page = "home"
    /\ HomeFetchesDone
    /\ budget > 0
    /\ totalSpent > budget
    /\ totalIncomeHome > 0
    /\ netBalance # 0

(***************************************************************************)
(* C22                                                                     *)
(***************************************************************************)
\* this step is handleSubmit sending a request from the edit dialog of the tab
SubmitsEdit(tab) ==
    /\ Len(writeCalls') = Len(writeCalls) + 1
    /\ writeCalls'[Len(writeCalls')].fn = "handleSubmit"
    /\ activeTab = tab
    /\ (IF tab = "expenses" THEN editingExpense ELSE editingIncome) # 0

\* tbl2 is tbl with at most the row of that id changed, in no other field than
\* amount, category and date
OnlyRowChanged(tbl, tbl2, id) ==
    /\ Len(tbl2) = Len(tbl)
    /\ \A k \in 1..Len(tbl) :
          /\ tbl2[k].id = tbl[k].id
          /\ tbl2[k].user_id = tbl[k].user_id
          /\ tbl[k].id # id => tbl2[k] = tbl[k]

\* C22: an update submitted from the edit dialog changes only the amount,
\* category and date (and the title, which is not modelled) of the one row whose
\* id is the edited transaction's id: the id and the owner of that row, the
\* number of rows, and every other row of every table are unchanged.
C22_UpdateChangesOnlyTheEditedRow ==
    [][ /\ SubmitsEdit("expenses") =>
              /\ OnlyRowChanged(expensesTbl, expensesTbl', editingExpense)
              /\ UNCHANGED <<incomesTbl, budgetsTbl>>
        /\ SubmitsEdit("income") =>
              /\ OnlyRowChanged(incomesTbl, incomesTbl', editingIncome)
              /\ UNCHANGED <<expensesTbl, budgetsTbl>>
      ]_vars

\* an edit of the expense of id 1 has been applied: the row carries the amount
\* typed into the dialog
C22_Witness ==
    /\ page = "home"
    /\ \E c \in 1..Len(writeCalls) :
          writeCalls[c].fn = "handleSubmit" /\ ~writeCalls[c].error
    /\ Len(expensesTbl) = 1
    /\ expensesTbl[1].id = 1
    /\ expensesTbl[1].amount = 2
    /\ Len(incomesTbl) = 1

(***************************************************************************)
(* C23                                                                     *)
(***************************************************************************)
\* this step is an invocation of handleSaveBudget in session s, by a signed-in
\* user, that returns without awaiting the store
SaveReturnsAtOnce(s) ==
    /\ svPc[s] = "idle" /\ svPc'[s] = "idle"
    /\ ~loading[s] /\ ~loading'[s]
    /\ <<svAmount[s], svToast[s]>>' # <<svAmount[s], svToast[s]>>

\* C23: a budget amount is always positive.  handleSaveBudget with an amount
\* <= 0 reports the error "Budget must be greater than 0" and issues no insert
\* or update (no invocation is ever at the write with an amount <= 0, and the
\* store is changed by no other step than the write of an invocation), so the
\* store is unchanged; and no reachable state of the store holds a budget row
\* with amount <= 0.
C23_BudgetAmountPositive ==
    /\ [](\A k \in 1..Len(budgetsTbl) : budgetsTbl[k].amount > 0)
    /\ [](\A s \in Sessions : svPc[s] = "write" => svAmount[s] > 0)
    /\ [][ /\ \A s \in Sessions :
                (SaveReturnsAtOnce(s) /\ svAmount'[s] <= 0) =>
                    /\ svToast'[s] = "Budget must be greater than 0"
                    /\ UNCHANGED storeVars
           /\ budgetsTbl' # budgetsTbl =>
                \E s \in Sessions : svPc[s] = "write" /\ svPc'[s] = "idle"
         ]_vars

\* a session was refused the amount 0 after another session has saved a budget
C23_Witness ==
    /\ page = "settings"
    /\ svAmount["s1"] = 0
    /\ svToast["s1"] = "Budget must be greater than 0"
    /\ ~loading["s1"]
    /\ svToast["s2"] = "Budget saved successfully!"

(***************************************************************************)
(* C24                                                                     *)
(***************************************************************************)
\* C24: in every reachable state of the Home view totalSpent is the sum of the
\* amounts of the expenses the list holds and totalIncome is the sum of the
\* amounts of the incomes the list holds: initially, after fetches that failed,
\* and after re-fetches that overlap each other and the writes.
C24_TotalsAreSumsOfLists ==
    page = "home" =>
        /\ totalSpent = SumOf(expenses)
        /\ totalIncomeHome = SumOf(incomes)

\* the list of the expenses holds two rows after a re-fetch, while the list of
\* the incomes holds one
C24_Witness ==
    /\ page = "home"
    /\ Len(expenses) = 2
    /\ totalSpent = 3
    /\ Len(incomes) = 1
    /\ \E k \in 1..Len(fetchCalls) : fetchCalls[k].pc = "done"

(***************************************************************************)
(* C25                                                                     *)
(***************************************************************************)
\* C25: in every reachable state of the Trends view monthlyData holds no entry
\* or exactly six entries.  The series is published only when all six months
\* have been queried (while fetchTrends runs it is empty, and what is published
\* is the whole local array), and it stays empty when no user is authenticated
\* (fetchTrends has returned with an empty local array).
C25_SeriesEmptyOrComplete ==
    page = "trends" =>
        /\ Len(monthlyData) \in {0, 6}
        /\ trPc # "done" => monthlyData = <<>>
        /\ monthlyData # <<>> => monthlyData = trMonths
        /\ (trPc = "done" /\ trMonths = <<>>) => monthlyData = <<>>

\* the series of six months has been published, with an expense in its oldest
\* month and an income in its newest
C25_Witness ==
    /\ page = "trends"
    /\ trPc = "done"
    /\ Len(monthlyData) = 6
    /\ monthlyData[1].expenses > 0
    /\ monthlyData[6].income > 0

(***************************************************************************)
(* C26                                                                     *)
(***************************************************************************)
\* this step is the continuation of an invocation of handleSubmit whose write
\* the store applied
SubmitSucceeds ==
    \E k \in 1..Len(writeCalls) :
        /\ writeCalls[k].fn = "handleSubmit"
        /\ ~writeCalls[k].error
        /\ writeCalls[k].pc = "await"
        /\ writeCalls'[k].pc = "done"

\* C26: in every reachable state of the Home view an edit target is set only
\* while the dialog is open (editingExpense or editingIncome non-null implies
\* dialogOpen), and every way of closing the dialog leaves both edit targets
\* null: the dismissal, and the continuation of a submit that succeeded, also
\* when it runs after the dialog was dismissed and opened again.
C26_EditTargetOnlyWhileDialogOpen ==
    /\ []((editingExpense # 0 \/ editingIncome # 0) => dialogOpen)
    /\ [][ ((dialogOpen /\ ~dialogOpen') \/ SubmitSucceeds) =>
              (~dialogOpen' /\ editingExpense' = 0 /\ editingIncome' = 0) ]_vars

\* the dialog was opened on the expense of id 1 and its submit has succeeded:
\* the store holds the edit, the dialog is closed and both targets are null
C26_Witness ==
    /\ page = "home"
    /\ Len(writeCalls) = 1
    /\ writeCalls[1].fn = "handleSubmit" /\ writeCalls[1].pc = "done"
    /\ ~writeCalls[1].error
    /\ Len(expensesTbl) = 1 /\ expensesTbl[1].amount = 2
    /\ ~dialogOpen /\ editingExpense = 0 /\ editingIncome = 0

(***************************************************************************)
(* C27                                                                     *)
(***************************************************************************)
\* this step sends the write of an invocation of a handler, and the store
\* rejects it
WriteRejected ==
    /\ Len(writeCalls') = Len(writeCalls) + 1
    /\ writeCalls'[Len(writeCalls')].error

\* this step is the continuation of the k-th invocation, whose write the store
\* rejected
RejectionHandled(k) ==
    /\ writeCalls[k].error
    /\ writeCalls[k].pc = "await"
    /\ writeCalls'[k].pc = "done"

\* C27: if the store rejects the insert or update of handleSubmit or the delete
\* of a delete handler, the store is unchanged, the handler starts no re-fetch
\* and leaves the displayed lists and totals as they are, and a submit leaves
\* the dialog open with the edit target and the form fields unchanged.
C27_RejectedWriteChangesNothing ==
    [][ /\ WriteRejected =>
              /\ UNCHANGED storeVars
              /\ writeCalls'[Len(writeCalls')].fn = "handleSubmit" =>
                    /\ dialogOpen'
                    /\ UNCHANGED <<editingExpense, editingIncome, formData>>
        /\ \A k \in 1..Len(writeCalls) :
              RejectionHandled(k) =>
                  /\ UNCHANGED <<storeVars, fetchCalls>>
                  /\ UNCHANGED <<expenses, incomes, totalSpent, totalIncomeHome>>
                  /\ UNCHANGED <<dialogOpen, editingExpense, editingIncome, formData>>
      ]_vars

\* the expense form was submitted with the amount 0, which CHECK (amount > 0)
\* rejects, and handleSubmit has returned: the dialog is open on the same form
C27_Witness ==
    /\ page = "home"
    /\ Len(writeCalls) = 1
    /\ writeCalls[1].fn = "handleSubmit" /\ writeCalls[1].table = "expenses"
    /\ writeCalls[1].error /\ writeCalls[1].pc = "done"
    /\ dialogOpen
    /\ formData.amount = <<0>>
    /\ fetchCalls = <<>>
    /\ Len(expensesTbl) = 1

(***************************************************************************)
(* C28                                                                     *)
(***************************************************************************)
\* C28: every invocation of handleSaveBudget eventually sets loading back to
\* false, on every path: whenever loading is true in a session, it is false
\* again later.
C28_LoadingEventuallyFalse ==
    \A s \in Sessions : loading[s] ~> ~loading[s]

(***************************************************************************)
(* C29                                                                     *)
(***************************************************************************)
\* the entry fetchTrends pushes for the current month (its last iteration, i = 0,
\* at the instant the view was opened) when both of its queries succeed on the
\* store as it is
TrendsCurrentMonthEntry ==
    MonthEntry(SubMonths(Now(0), 0),
               OkResp(RangeQuery(expensesTbl, Me,
                                 StartOfMonth(CurMonth), EndOfMonth(CurMonth))),
               OkResp(RangeQuery(incomesTbl, Me,
                                 StartOfMonth(CurMonth), EndOfMonth(CurMonth))))

\* fetchTrends has published its series, its last iteration having queried the
\* current month without error
TrendsCurrentMonthFetched ==
    /\ page = "trends" /\ trPc = "done" /\ Len(monthlyData) = 6
    /\ trDate = CurMonth
    /\ ~trExpenses.error /\ ~trIncomes.error

\* C29: for any store contents and a fixed current instant the views agree on
\* the current month: the expense total of the last entry of the Trends series
\* is Home's totalSpent and Analytics' totalExpenses, and its income total is
\* Home's and Analytics' totalIncome (each view having fetched without error).
C29_ViewsAgreeOnCurrentMonth ==
    /\ TrendsCurrentMonthFetched =>
          monthlyData[6] = TrendsCurrentMonthEntry
    /\ AnalyticsProcessed =>
          /\ totalExpenses = TrendsCurrentMonthEntry.expenses
          /\ totalIncome = TrendsCurrentMonthEntry.income
    /\ (page = "home" /\ HomeExpensesFetched) =>
          totalSpent = TrendsCurrentMonthEntry.expenses
    /\ (page = "home" /\ HomeIncomesFetched) =>
          totalIncomeHome = TrendsCurrentMonthEntry.income

(***************************************************************************)
(* C30                                                                     *)
(***************************************************************************)
\* C30, as stated: in every state of the Home view, for every budget (an absent
\* budget is held as 0) and every totalSpent, whenever the displayed remaining
\* amount is negative the "Budget exceeded!" alert is shown.
C30_NegativeRemainingShowsExceeded ==
    (page = "home" /\ remaining < 0) => budgetAlert = "Budget exceeded!"

\* C30, amended: in every state of the Home view with a budget > 0, whenever
\* the displayed remaining amount is negative the "Budget exceeded!" alert is
\* shown; while the budget is absent (held as 0) the remaining amount is
\* -totalSpent, negative as soon as anything is spent, and no alert is shown.
C30_NegativeRemainingShowsExceededUnderABudget ==
    page = "home" =>
        /\ (budget > 0 /\ remaining < 0) => budgetAlert = "Budget exceeded!"
        /\ budget = 0 => (remaining = 0 - totalSpent /\ budgetAlert = "none")

\* the budget of the month is overspent by 1 and the alert is shown
C30_Witness ==
    /\ page = "home"
    /\ fbPc = "done" /\ HomeExpensesFetched
    /\ budget > 0
    /\ remaining = 0 - 1
    /\ budgetAlert = "Budget exceeded!"

====
